---- MODULE Spec2Model ----
(***************************************************************************)
(* A model of panefit: the layout calculator (panefit/layout.py), the      *)
(* content analyzer's per-pane hash history (panefit/analyzer.py), the     *)
(* tmux transform planner and executor (integrations/tmux/provider.py) and *)
(* the LLM score blending of reflow (integrations/tmux/reflow.py).         *)
(*                                                                         *)
(* Each component has its own specification over the shared variables:     *)
(*   SpecPlan     plan_layout, the execution of its swaps, and a re-plan   *)
(*   SpecSizes    LayoutCalculator._proportional_sizes on bounded inputs   *)
(*   SpecLayout   LayoutCalculator.calculate on bounded inputs             *)
(*   SpecAnalyzer Analyzer.analyze called again and again on one instance  *)
(*   SpecExec     execute_plan, one tmux command at a time                 *)
(*   SpecBlend    the LLM blending of reflow and of the CLI                *)
(*   SpecReflow   reflow, cmd_reflow and analyze_session, call by call     *)
(*   SpecMcp      the MCP server's analyze and calculate_layout tools      *)
(*   SpecRelevance calculate_relevance on pairs of texts, both ways        *)
(*   SpecScores   analyze: the score fields of its result                  *)
(*   SpecChecksum _calculate_layout_checksum on the descriptors of two    *)
(*                panes                                                    *)
(*   SpecSession  SessionOptimizer: optimize, consolidate_related,          *)
(*                park_inactive                                            *)
(*   SpecDryRun   SpecReflow and SpecSession together                      *)
(***************************************************************************)
EXTENDS Integers, Sequences, FiniteSets, TLC

\* ------------------------------------------------------------------ bounds
\* Pane ids are tmux's %N numbers, here 1..NumPanes.
NumPanes == 3
\* Raw (unnormalized) combined scores are 0..MaxScore.
MaxScore == 3
\* The size to distribute is 0..MaxTotal, the minimum size 0..MaxMin.
MaxTotal == 12
MaxMin == 4
\* One Analyzer records at most MaxRecorded hashes, over all panes.
MaxRecorded == 11

\* Of the tmux commands of one execute_plan at most MaxFailures fail.
MaxFailures == 1

\* A tool request carries at most MaxReqPanes pane records; one server
\* answers at most MaxRequests requests.
MaxReqPanes == 2
MaxRequests == 2

PaneIds == 1..NumPanes

VARIABLES
    pc,         \* position of the running operation
    panes,      \* the adapter's panes, as get_panes lists them (PaneData)
    layout,     \* the target WindowLayout.panes (PaneLayout records)
    plan,       \* LayoutPlan.steps of the last plan_layout call
    swapIdx,    \* the next step of plan that the swap loop looks at
    argScores,  \* _proportional_sizes: the PaneScore list
    argTotal,   \* _proportional_sizes: the size to distribute
    argMin,     \* _proportional_sizes: the minimum size of a pane
    retSizes,   \* _proportional_sizes: the returned sizes
    calcArgs,   \* calculate: its arguments and the calculator's strategy
    calcResult, \* calculate: the panes of the returned WindowLayout
    content_history, \* Analyzer._content_history: pane id -> list of hashes
    recorded,   \* per pane id, every hash analyze has recorded for it
    anResult,   \* the AnalysisResult of the last analyze call
    fetched,    \* execute_plan: current_panes, the panes fetched after the swaps
    resize_steps,   \* execute_plan: the resize steps, sorted
    execIdx,    \* execute_plan: the next step of the resize / join loop
    success,    \* execute_plan: its success flag
    returned,   \* execute_plan: "none", "true", "false" or "exception"
    calls,      \* the tmux commands of steps, in the order they were issued
    blendScores, \* reflow: analyses, pane -> the scores of its AnalysisResult
    heuristic,  \* the scores of blendScores as the analyzer computed them
    llmFailed,  \* the panes for which the scorer failed
    blendIdx,   \* reflow: the next pane of the blending loop
    blendCfg,   \* reflow: its entry point and the llm configuration
    reflowError, \* the exception reflow ended with, "none" if none
    rfCfg, \* reflow: its entry point, the adapter's availability, its options
    rfLog, \* reflow: the calls on adapter, analyzer and planner, in order
    rfResult, \* reflow: what it returned
    mcpTmux, \* MCP server: what its tmux property finds
    mcpRequest, \* MCP server: the last tool call
    mcpResult, \* MCP server: the value the last tool call returned
    mcpBefore, \* the analyzer's history before the last tool call
    mcpCount, \* the number of tool calls so far
    relA, \* calculate_relevance: the first text
    relB, \* calculate_relevance: the second text
    relAB, \* the RelevanceResult of (relA, relB)
    relBA, \* the RelevanceResult of (relB, relA)
    scContent, \* analyze: the text whose scores are calculated
    scPane, \* analyze: its pane id
    fetchedAt, \* execute_plan: the length of calls at each get_panes
    ckPaneStrs, \* _calculate_layout_checksum: its argument pane_strs
    ckResult, \* _calculate_layout_checksum: the string it returned
    ssCfg, \* SessionOptimizer: the entry point called and its arguments
    ssPanes, \* the panes of the session, as the adapter has them
    ssLog, \* the calls made on the adapter, in order
    ssPending, \* the mutating calls the apply loop has still to make
    ssResult \* what the entry point returns

planVars == <<panes, layout, plan, swapIdx>>
sizeVars == <<argScores, argTotal, argMin, retSizes>>

calcVars == <<calcArgs, calcResult>>

anVars == <<content_history, recorded, anResult>>

execVars == <<fetched, resize_steps, execIdx, success, returned, calls>>

blendVars == <<blendScores, heuristic, llmFailed, blendIdx, blendCfg, reflowError>>

rfVars == <<rfCfg, rfLog, rfResult>>

mcpVars == <<mcpTmux, mcpRequest, mcpResult, mcpBefore, mcpCount>>

relVars == <<relA, relB, relAB, relBA>>

scVars == <<scContent, scPane>>

fetchVars == <<fetchedAt>>

ckVars == <<ckPaneStrs, ckResult>>

ssVars == <<ssCfg, ssPanes, ssLog, ssPending, ssResult>>

vars == <<pc, planVars, sizeVars, calcVars, anVars, execVars, blendVars, rfVars, mcpVars, relVars, scVars, fetchVars, ckVars, ssVars>>

PlanIdle == panes = <<>> /\ layout = <<>> /\ plan = <<>> /\ swapIdx = 1
SizesIdle == argScores = <<>> /\ argTotal = 0 /\ argMin = 0 /\ retSizes = <<>>
CalcIdle == calcArgs = <<>> /\ calcResult = <<>>
AnalyzerIdle == content_history = <<>> /\ recorded = <<>> /\ anResult = <<>>
ExecIdle ==
    /\ fetched = <<>> /\ resize_steps = <<>> /\ execIdx = 1
    /\ success = TRUE /\ returned = "none" /\ calls = <<>>
BlendIdle ==
    /\ blendScores = <<>> /\ heuristic = <<>> /\ llmFailed = {} /\ blendIdx = 1
    /\ blendCfg = <<>> /\ reflowError = "none"

ReflowIdle == rfCfg = <<>> /\ rfLog = <<>> /\ rfResult = <<>>

McpIdle == mcpTmux = "none" /\ mcpRequest = <<>> /\ mcpResult = <<>> /\ mcpBefore = <<>> /\ mcpCount = 0

RelevanceIdle == relA = <<>> /\ relB = <<>> /\ relAB = <<>> /\ relBA = <<>>

ScoresIdle == scContent = <<>> /\ scPane = ""

FetchIdle == fetchedAt = <<>>

ChecksumIdle == ckPaneStrs = <<>> /\ ckResult = <<>>

SessionIdle == ssCfg = <<>> /\ ssPanes = <<>> /\ ssLog = <<>> /\ ssPending = <<>> /\ ssResult = <<>>

\* ------------------------------------------------------------- sequences
\* The index of the first element of s equal to e (list.index); 0 if absent.
RECURSIVE IndexFrom(_, _, _)
IndexFrom(s, e, k) ==
    IF k > Len(s) THEN 0
    ELSE IF s[k] = e THEN k
    ELSE IndexFrom(s, e, k + 1)

\* A list.index that answers 1 for an element the list does not hold.
Index_AbsentIsFirst(s, e) == IF IndexFrom(s, e, 1) = 0 THEN 1 ELSE IndexFrom(s, e, 1)

Index(s, e) == IndexFrom(s, e, 1)

\* A planner that records the swap and forgets to update its working order.
SwapAt_Forgotten(s, i, j) == s

\* s with the elements at positions i and j exchanged.
SwapAt(s, i, j) == [s EXCEPT ![i] = s[j], ![j] = s[i]]

IdsOf(ps) == {ps[k].id : k \in 1..Len(ps)}

\* ----------------------------------------------------- sorted by (y, x)
\* key=lambda p: (p.y, p.x): tuple comparison.
YXLess(p, q) == p.y < q.y \/ (p.y = q.y /\ p.x < q.x)

\* p inserted into the sorted sequence s after every element not greater than
\* it: Python's sorted() is stable.
RECURSIVE InsertYX(_, _)
InsertYX(s, p) ==
    IF s = <<>> THEN <<p>>
    ELSE IF YXLess(p, Head(s)) THEN <<p>> \o s
    ELSE <<Head(s)>> \o InsertYX(Tail(s), p)

RECURSIVE SortedYXFrom(_, _)
SortedYXFrom(ps, acc) ==
    IF ps = <<>> THEN acc
    ELSE SortedYXFrom(Tail(ps), InsertYX(acc, Head(ps)))

SortedYX(ps) == SortedYXFrom(ps, <<>>)

\* [p.id for p in sorted(ps, key=(y, x))]: the reading order.
ReadingOrder(ps) == LET s == SortedYX(ps) IN [k \in 1..Len(s) |-> s[k].id]

\* ------------------------------------------------------------ plan_layout
SwapStep(a, b) ==
    [operation |-> "swap", pane_id |-> a, target_id |-> b, width |-> 0, height |-> 0]

ResizeStep(p) ==
    [operation |-> "resize", pane_id |-> p.id, target_id |-> 0,
     width |-> p.width, height |-> p.height]

\* The loop over enumerate(target_order), from index i on (1-based).
RECURSIVE PlanSwapsFrom(_, _, _, _)
PlanSwapsFrom(working_order, target_order, i, steps) ==
    IF i > Len(target_order) \/ i > Len(working_order)
    THEN [working_order |-> working_order, steps |-> steps]
    ELSE LET target_id == target_order[i]
             current_id == working_order[i]
             j == Index(working_order, target_id)
         IN IF current_id # target_id /\ j # 0
            THEN PlanSwapsFrom(SwapAt(working_order, i, j), target_order, i + 1,
                               Append(steps, SwapStep(current_id, target_id)))
            ELSE PlanSwapsFrom(working_order, target_order, i + 1, steps)

\* A planner that takes the snapshot in the order get_panes listed it,
\* without sorting it by position.
current_order_AsListed(current_panes) ==
    [k \in 1..Len(current_panes) |-> current_panes[k].id]

\* current_order = [p.id for p in sorted(current_panes, key=(y, x))]
current_order(current_panes) == ReadingOrder(current_panes)

\* A planner that sorts the target by (x, y) instead of (y, x).
target_order_ByXY(target_panes) ==
    ReadingOrder([k \in 1..Len(target_panes) |->
        [target_panes[k] EXCEPT !.x = target_panes[k].y, !.y = target_panes[k].x]])

\* target_order = [p.id for p in sorted(layout.panes, key=(y, x))]
target_order(target_panes) == ReadingOrder(target_panes)

PlanSwaps(current_panes, target_panes) ==
    PlanSwapsFrom(current_order(current_panes), target_order(target_panes), 1, <<>>)

ResizeSteps(target_panes) ==
    [k \in 1..Len(target_panes) |-> ResizeStep(target_panes[k])]

plan_layout(current_panes, target_panes) ==
    IF current_panes = <<>> THEN <<>>
    ELSE PlanSwaps(current_panes, target_panes).steps \o ResizeSteps(target_panes)

SwapsOf(steps) == SelectSeq(steps, LAMBDA s : s.operation = "swap")

\* ------------------------------------------------------------- swap_panes
\* tmux swap-pane -s a -t b: the two panes exchange their places.
swap_panes(ps, a, b) ==
    LET ia == Index([k \in 1..Len(ps) |-> ps[k].id], a)
        ib == Index([k \in 1..Len(ps) |-> ps[k].id], b)
    IN IF ia = 0 \/ ib = 0 THEN ps
       ELSE [ps EXCEPT ![ia].x = ps[ib].x, ![ia].y = ps[ib].y,
                       ![ib].x = ps[ia].x, ![ib].y = ps[ia].y]

\* ------------------------------------------------------- LayoutCalculator
\* A PaneScore is [id, num, den]: its combined score is the fraction num/den
\* (den >= 1).  Within one batch every score has the same den, the sum of the
\* batch's raw scores, so that num/den is the normalized score; float rounding
\* of the division and of the products below is not modelled.
MIN_WIDTH == 20
MIN_HEIGHT == 5
\* GOLDEN_RATIO = 1.618, in thousandths.
GOLDEN_RATIO == 1618

\* a.combined > b.combined
CombinedGreater(a, b) == a.num * b.den > b.num * a.den

RECURSIVE SumSeq(_)
SumSeq(s) == IF s = <<>> THEN 0 ELSE Head(s) + SumSeq(Tail(s))

\* p inserted into the descending sequence s after every element not smaller
\* than it: sorted(..., reverse=True) keeps the order of equal keys.
RECURSIVE InsertDesc(_, _)
InsertDesc(s, p) ==
    IF s = <<>> THEN <<p>>
    ELSE IF CombinedGreater(p, Head(s)) THEN <<p>> \o s
    ELSE <<Head(s)>> \o InsertDesc(Tail(s), p)

RECURSIVE SortedDescFrom(_, _)
SortedDescFrom(ss, acc) ==
    IF ss = <<>> THEN acc
    ELSE SortedDescFrom(Tail(ss), InsertDesc(acc, Head(ss)))

\* sorted(scores, key=lambda s: s.combined, reverse=True)
SortedByCombined(ss) == SortedDescFrom(ss, <<>>)

\* max(range(len(scores)), key=lambda i: scores[i].combined): the first index
\* of a greatest combined score.
MaxIdx(ss) ==
    CHOOSE i \in 1..Len(ss) :
        /\ \A k \in 1..Len(ss) : ~CombinedGreater(ss[k], ss[i])
        /\ \A k \in 1..(i - 1) : CombinedGreater(ss[i], ss[k])

\* int(remaining * s.combined)
Share(remaining, s) == (remaining * s.num) \div s.den

\* A distribution that hands out shares of the whole size and forgets the
\* minimum every pane starts from.
proportional_sizes_NoMin(ss, total_size, min_size) ==
    LET n == Len(ss) IN
    IF n = 0 THEN <<>>
    ELSE IF n = 1 THEN <<total_size>>
    ELSE IF min_size * n >= total_size THEN [k \in 1..n |-> total_size \div n]
    ELSE LET sizes == [k \in 1..n |-> Share(total_size, ss[k])]
             diff == total_size - SumSeq(sizes)
             max_idx == MaxIdx(ss)
         IN [sizes EXCEPT ![max_idx] = sizes[max_idx] + diff]

\* LayoutCalculator._proportional_sizes
proportional_sizes(ss, total_size, min_size) ==
    LET n == Len(ss) IN
    IF n = 0 THEN <<>>
    ELSE IF n = 1 THEN <<total_size>>
    ELSE LET min_total == min_size * n IN
         IF min_total >= total_size THEN [k \in 1..n |-> total_size \div n]
         ELSE LET remaining == total_size - min_total
                  sizes == [k \in 1..n |-> min_size + Share(remaining, ss[k])]
                  diff == total_size - SumSeq(sizes)
                  max_idx == MaxIdx(ss)
              IN IF diff # 0 THEN [sizes EXCEPT ![max_idx] = sizes[max_idx] + diff]
                 ELSE sizes

\* Scores are kept in tenths: 0..10 stands for 0.0..1.0.
\* analyses.get(pane.id): the pane's <<importance, interestingness, activity>>,
\* 0.5 each when the pane has no analysis.
ScoresOf(pane, analyses) ==
    IF pane.id \in DOMAIN analyses THEN analyses[pane.id] ELSE <<5, 5, 5>>

\* The raw combined score of a pane, as a count of the strategy's unit (a
\* tenth, a hundredth for balanced, a thirtieth for the else branch).
\* Normalization divides by the batch's sum, so the unit cancels.
RawCombined(pane, analyses, strategy) ==
    LET sc == ScoresOf(pane, analyses)
        importance == IF pane.active
                      THEN (IF sc[1] + 2 > 10 THEN 10 ELSE sc[1] + 2)
                      ELSE sc[1]
        interestingness == sc[2]
        activity == sc[3]
    IN CASE strategy = "importance" -> importance
         [] strategy = "entropy" -> interestingness
         [] strategy = "activity" -> activity
         [] strategy = "balanced" -> 4 * importance + 3 * interestingness + 3 * activity
         [] OTHER -> importance + interestingness + activity

\* LayoutCalculator._calculate_scores
calculate_scores(cpanes, analyses, strategy) ==
    LET raw == [k \in 1..Len(cpanes) |-> RawCombined(cpanes[k], analyses, strategy)]
        total == SumSeq(raw)
    IN [k \in 1..Len(cpanes) |->
           [id |-> cpanes[k].id, num |-> raw[k], den |-> IF total > 0 THEN total ELSE 1]]

\* The running sum of sizes before position k: the x (or y) of pane k.
\* A running sum that never advances: every pane starts at 0.
Offset_NotAdvanced(szs, k) == 0

RECURSIVE Offset(_, _)
Offset(szs, k) == IF k <= 1 THEN 0 ELSE Offset(szs, k - 1) + szs[k - 1]

\* LayoutCalculator._layout_horizontal
layout_horizontal(ss, window_width, window_height, min_width) ==
    LET sorted_scores == SortedByCombined(ss)
        widths == proportional_sizes(sorted_scores, window_width, min_width)
    IN [i \in 1..Len(sorted_scores) |->
           [id |-> sorted_scores[i].id, x |-> Offset(widths, i), y |-> 0,
            width |-> widths[i], height |-> window_height]]

\* LayoutCalculator._layout_vertical
layout_vertical(ss, window_width, window_height, min_height) ==
    LET sorted_scores == SortedByCombined(ss)
        heights == proportional_sizes(sorted_scores, window_height, min_height)
    IN [i \in 1..Len(sorted_scores) |->
           [id |-> sorted_scores[i].id, x |-> 0, y |-> Offset(heights, i),
            width |-> window_width, height |-> heights[i]]]

\* int(window_width / GOLDEN_RATIO)
MainWidth(window_width) == (window_width * 1000) \div GOLDEN_RATIO

\* A tiled layout that stacks every pane, the main one included, in the side
\* column.
layout_tiled_MainTwice(ss, window_width, window_height, min_width, min_height) ==
    LET sorted_scores == SortedByCombined(ss)
        main_width == MainWidth(window_width)
        heights == proportional_sizes(sorted_scores, window_height, min_height)
    IN IF ss = <<>> THEN <<>>
       ELSE <<[id |-> sorted_scores[1].id, x |-> 0, y |-> 0,
               width |-> main_width, height |-> window_height]>>
            \o [i \in 1..Len(sorted_scores) |->
                   [id |-> sorted_scores[i].id, x |-> main_width,
                    y |-> Offset(heights, i),
                    width |-> window_width - main_width, height |-> heights[i]]]

\* LayoutCalculator._layout_tiled
layout_tiled(ss, window_width, window_height, min_width, min_height) ==
    IF Len(ss) <= 1
    THEN layout_horizontal(ss, window_width, window_height, min_width)
    ELSE LET sorted_scores == SortedByCombined(ss)
             main_width == MainWidth(window_width)
             side_width == window_width - main_width
             side_scores == Tail(sorted_scores)
             heights == proportional_sizes(side_scores, window_height, min_height)
         IN <<[id |-> sorted_scores[1].id, x |-> 0, y |-> 0,
               width |-> main_width, height |-> window_height]>>
            \o [i \in 1..Len(side_scores) |->
                   [id |-> side_scores[i].id, x |-> main_width, y |-> Offset(heights, i),
                    width |-> side_width, height |-> heights[i]]]

\* relevance_matrix.get(key1) or relevance_matrix.get(key2), then
\* rel.combined_score if rel else 0.
RelScore(relevance_matrix, a, b) ==
    IF <<a, b>> \in DOMAIN relevance_matrix THEN relevance_matrix[<<a, b>>]
    ELSE IF <<b, a>> \in DOMAIN relevance_matrix THEN relevance_matrix[<<b, a>>]
    ELSE 0

\* related_scores.sort(key=lambda x: x[1], reverse=True): a stable sort of the
\* pairs <<score, rel_score>>, greatest relevance first.
RECURSIVE InsertRel(_, _)
InsertRel(s, p) ==
    IF s = <<>> THEN <<p>>
    ELSE IF p[2] > Head(s)[2] THEN <<p>> \o s
    ELSE <<Head(s)>> \o InsertRel(Tail(s), p)

RECURSIVE SortedRelFrom(_, _)
SortedRelFrom(rs, acc) ==
    IF rs = <<>> THEN acc
    ELSE SortedRelFrom(Tail(rs), InsertRel(acc, Head(rs)))

\* LayoutCalculator._layout_related
layout_related(ss, relevance_matrix, window_width, window_height, min_width, min_height) ==
    IF Len(ss) <= 2
    THEN layout_tiled(ss, window_width, window_height, min_width, min_height)
    ELSE LET sorted_scores == SortedByCombined(ss)
             main_pane == sorted_scores[1]
             others == Tail(sorted_scores)
             related_scores ==
                 SortedRelFrom([k \in 1..Len(others) |->
                     <<others[k], RelScore(relevance_matrix, main_pane.id, others[k].id)>>],
                     <<>>)
             reordered == <<main_pane>>
                          \o [k \in 1..Len(related_scores) |-> related_scores[k][1]]
         IN layout_tiled(reordered, window_width, window_height, min_width, min_height)

\* LayoutCalculator.calculate: the panes of the WindowLayout it returns.  A
\* relevance matrix that is None or empty is falsy; both are the empty
\* function here.
calculate(a) ==
    LET ss == calculate_scores(a.panes, a.analyses, a.strategy)
        W == a.window_width
        H == a.window_height
    IN CASE a.layout_type = "horizontal" -> layout_horizontal(ss, W, H, a.min_width)
         [] a.layout_type = "vertical" -> layout_vertical(ss, W, H, a.min_height)
         [] a.layout_type = "tiled" -> layout_tiled(ss, W, H, a.min_width, a.min_height)
         [] OTHER ->
              IF a.strategy = "related" /\ DOMAIN a.relevance_matrix # {}
              THEN layout_related(ss, a.relevance_matrix, W, H, a.min_width, a.min_height)
              ELSE IF Len(a.panes) = 2
              THEN (IF 2 * W > 3 * H    \* aspect = W / H > 1.5
                    THEN layout_horizontal(ss, W, H, a.min_width)
                    ELSE layout_vertical(ss, W, H, a.min_height))
              ELSE layout_tiled(ss, W, H, a.min_width, a.min_height)

\* --------------------------------------------------------- SpecPlan: inputs
\* The panes with ids in S, listed by id, pane k at corner at[k].
PaneList(S, at, w, h) ==
    LET RECURSIVE Build(_)
        Build(k) ==
            IF k > NumPanes THEN <<>>
            ELSE IF k \in S
                 THEN <<[id |-> k, x |-> at[k][2], y |-> at[k][1],
                         width |-> w, height |-> h]>> \o Build(k + 1)
                 ELSE Build(k + 1)
    IN Build(1)

\* The corners <<y, x>> a pane may have: the first NumPanes + 1 cells, in
\* reading order, of a grid two cells wide.
Corners == {<<c \div 2, c % 2>> : c \in 0..NumPanes}

\* Panes of one window never share a corner.
Placements == {f \in [PaneIds -> Corners] : \A a, b \in PaneIds : f[a] = f[b] => a = b}

Snapshots == {PaneList(S, at, 80, 24) : S \in SUBSET PaneIds, at \in Placements}

Targets == {PaneList(S, at, 40, 12) : S \in SUBSET PaneIds, at \in Placements}

InitPlan ==
    /\ pc = "start"
    /\ panes \in Snapshots
    /\ layout \in Targets
    /\ plan = <<>>
    /\ swapIdx = 1
    /\ SizesIdle
    /\ CalcIdle
    /\ AnalyzerIdle
    /\ ExecIdle
    /\ BlendIdle
    /\ ReflowIdle
    /\ McpIdle
    /\ RelevanceIdle
    /\ ScoresIdle
    /\ FetchIdle
    /\ ChecksumIdle
    /\ SessionIdle

\* plan = provider.plan_layout(layout)
PlanLayout ==
    /\ pc = "start"
    /\ plan' = plan_layout(panes, layout)
    /\ swapIdx' = 1
    /\ pc' = "swaps"
    /\ UNCHANGED <<panes, layout, sizeVars, calcVars, anVars, execVars, blendVars, rfVars, mcpVars, relVars, scVars, fetchVars, ckVars, ssVars>>

\* The index of the last swap step of steps at or after k.
NextSwap_Last(steps, k) ==
    LET ks == {i \in k..Len(steps) : steps[i].operation = "swap"}
    IN IF ks = {} THEN (IF k > Len(steps) THEN k ELSE Len(steps) + 1)
       ELSE CHOOSE i \in ks : \A j \in ks : j <= i

\* The index of the first swap step of steps at or after k; Len(steps) + 1 if
\* there is none (for step in plan.steps: if step.operation == SWAP).
RECURSIVE NextSwap(_, _)
NextSwap(steps, k) ==
    IF k > Len(steps) THEN k
    ELSE IF steps[k].operation = "swap" THEN k
    ELSE NextSwap(steps, k + 1)

\* execute_plan's first loop: the next swap step handed to the adapter.
ExecSwap ==
    /\ pc = "swaps"
    /\ NextSwap(plan, swapIdx) <= Len(plan)
    /\ LET step == plan[NextSwap(plan, swapIdx)]
       IN panes' = swap_panes(panes, step.pane_id, step.target_id)
    /\ swapIdx' = NextSwap(plan, swapIdx) + 1
    /\ UNCHANGED <<pc, layout, plan, sizeVars, calcVars, anVars, execVars, blendVars, rfVars, mcpVars, relVars, scVars, fetchVars, ckVars, ssVars>>

SwapsDone ==
    /\ pc = "swaps"
    /\ NextSwap(plan, swapIdx) > Len(plan)
    /\ pc' = "swapped"
    /\ UNCHANGED <<panes, layout, plan, swapIdx, sizeVars, calcVars, anVars, execVars, blendVars, rfVars, mcpVars, relVars, scVars, fetchVars, ckVars, ssVars>>

\* plan_layout called again on the arrangement the swaps left.
Replan ==
    /\ pc = "swapped"
    /\ plan' = plan_layout(panes, layout)
    /\ pc' = "replanned"
    /\ UNCHANGED <<panes, layout, swapIdx, sizeVars, calcVars, anVars, execVars, blendVars, rfVars, mcpVars, relVars, scVars, fetchVars, ckVars, ssVars>>

NextPlan == PlanLayout \/ ExecSwap \/ SwapsDone \/ Replan

SpecPlan == InitPlan /\ [][NextPlan]_vars

\* -------------------------------------------------------------- SpecSizes
\* The raw scores raws of the panes handed to _proportional_sizes, normalized
\* over a batch whose other panes (the main pane that _layout_tiled takes out)
\* have the raw scores summing to extra.  A batch of sum 0 is left as it is.
ScoreList(raws, extra) ==
    LET total == SumSeq(raws) + extra
    IN [k \in 1..Len(raws) |->
           [id |-> k, num |-> raws[k], den |-> IF total > 0 THEN total ELSE 1]]

RawLists == UNION {[1..n -> 0..MaxScore] : n \in 0..NumPanes}

InitSizes ==
    /\ pc = "sizes_start"
    /\ argScores \in {ScoreList(raws, extra) : raws \in RawLists, extra \in 0..MaxScore}
    /\ argTotal \in 0..MaxTotal
    /\ argMin \in 0..MaxMin
    /\ retSizes = <<>>
    /\ PlanIdle
    /\ CalcIdle
    /\ AnalyzerIdle
    /\ ExecIdle
    /\ BlendIdle
    /\ ReflowIdle
    /\ McpIdle
    /\ RelevanceIdle
    /\ ScoresIdle
    /\ FetchIdle
    /\ ChecksumIdle
    /\ SessionIdle

Distribute ==
    /\ pc = "sizes_start"
    /\ retSizes' = proportional_sizes(argScores, argTotal, argMin)
    /\ pc' = "sized"
    /\ UNCHANGED <<argScores, argTotal, argMin, planVars, calcVars, anVars, execVars, blendVars, rfVars, mcpVars, relVars, scVars, fetchVars, ckVars, ssVars>>

NextSizes == Distribute

SpecSizes == InitSizes /\ [][NextSizes]_vars

\* ------------------------------------------------------------- SpecLayout
LayoutStrategies == {"importance", "entropy", "activity", "balanced", "related"}
LayoutTypes == {"auto", "horizontal", "vertical", "tiled"}

\* Window sizes around the minimums (20 columns, 5 rows) and around the
\* aspect ratio 1.5: 30 columns hold one minimum-width pane, 45 two, 100 five;
\* 4 rows hold none, 12 two, 30 six.
WindowWidths == {30, 45, 100}
WindowHeights == {4, 12, 30}

\* The <<importance, interestingness, activity>> of an analysed pane, in tenths.
Profiles == {<<0, 0, 0>>, <<10, 0, 0>>, <<0, 6, 6>>}

\* The panes %1..%n, the pane `active` (0: none) being the active one.
CalcPanes(n, active) == [k \in 1..n |-> [id |-> k, active |-> (k = active)]]

\* No pane is the active one, or the first is.
ActiveChoices(n) == IF n = 0 THEN {0} ELSE {0, 1}

\* The relevance matrix build_relevance_matrix stores, under both key orders,
\* for panes whose contents have the topics topic[k]: panes of one topic are
\* related (0.8), panes of different topics hardly (0.2).
MatrixOf(n, topic) ==
    [key \in {<<a, b>> \in (1..n) \X (1..n) : a # b} |->
        IF topic[key[1]] = topic[key[2]] THEN 8 ELSE 2]

\* No matrix, or the matrix of some topics; the panes' topics vary only under
\* the strategy that reads the matrix.
Matrices(n, strategy) ==
    {<<>>} \cup {MatrixOf(n, topic) :
                    topic \in IF strategy = "related" THEN [1..n -> {0, 1}]
                              ELSE [1..n -> {0}]}

InitLayout ==
    /\ pc = "calc_start"
    /\ \E n \in 0..NumPanes, strategy \in LayoutStrategies, layout_type \in LayoutTypes,
          W \in WindowWidths, H \in WindowHeights :
          \E active \in ActiveChoices(n), S \in SUBSET (1..n), matrix \in Matrices(n, strategy) :
              \E analyses \in [S -> Profiles] :
                  calcArgs = [panes |-> CalcPanes(n, active),
                              analyses |-> analyses,
                              window_width |-> W,
                              window_height |-> H,
                              relevance_matrix |-> matrix,
                              layout_type |-> layout_type,
                              strategy |-> strategy,
                              min_width |-> MIN_WIDTH,
                              min_height |-> MIN_HEIGHT]
    /\ calcResult = <<>>
    /\ PlanIdle
    /\ SizesIdle
    /\ AnalyzerIdle
    /\ ExecIdle
    /\ BlendIdle
    /\ ReflowIdle
    /\ McpIdle
    /\ RelevanceIdle
    /\ ScoresIdle
    /\ FetchIdle
    /\ ChecksumIdle
    /\ SessionIdle

Calculate ==
    /\ pc = "calc_start"
    /\ calcResult' = calculate(calcArgs)
    /\ pc' = "calculated"
    /\ UNCHANGED <<calcArgs, planVars, sizeVars, anVars, execVars, blendVars, rfVars, mcpVars, relVars, scVars, fetchVars, ckVars, ssVars>>

NextLayout == Calculate

SpecLayout == InitLayout /\ [][NextLayout]_vars

\* --------------------------------------------------------------- Analyzer
\* A text is a sequence of characters.  WordChars are the characters \w
\* matches (already lower case), SpaceChars the whitespace; any other
\* character is punctuation.
WordChars == {"a", "b", "d", "e", "f", "i"}
SpaceChars == {" ", "\n"}

\* re.sub(r'[^\w\s]', ' ', text.lower())
Blanked(text) ==
    [k \in 1..Len(text) |->
        IF text[k] \in WordChars \cup SpaceChars THEN text[k] ELSE " "]

\* text.split(): the maximal runs of characters that are not whitespace, in
\* the order of their first characters.
Split(text) ==
    LET starts == {k \in 1..Len(text) :
                      /\ text[k] \notin SpaceChars
                      /\ (k = 1 \/ text[k - 1] \in SpaceChars)}
        EndOf(k) == CHOOSE j \in k..Len(text) :
                      /\ \A m \in k..j : text[m] \notin SpaceChars
                      /\ (j = Len(text) \/ text[j + 1] \in SpaceChars)
        Start(i) == CHOOSE k \in starts :
                      Cardinality({m \in starts : m < k}) = i - 1
    IN [i \in 1..Cardinality(starts) |-> SubSeq(text, Start(i), EndOf(Start(i)))]

\* _tokenize: [w for w in text.split() if w and len(w) > 1]
tokenize(text) ==
    SelectSeq(Split(Blanked(text)), LAMBDA w : Len(w) > 1)

CharCode(ch) ==
    CASE ch = "a" -> 1 [] ch = "b" -> 2 [] ch = " " -> 3 [] ch = "\n" -> 4
      [] ch = "d" -> 6 [] ch = "e" -> 7 [] ch = "f" -> 8 [] ch = "i" -> 9
      [] ch = "$" -> 10 [] ch = ">" -> 11
      [] OTHER -> 5

\* _content_hash: md5(text.encode()).hexdigest()[:16], here the digits of the
\* text read in base 12, kept to 24 bits: a number that differs for texts of
\* up to six characters that differ.
RECURSIVE content_hash(_)
content_hash(text) ==
    IF text = <<>> THEN 0
    ELSE (CharCode(Head(text)) + 12 * content_hash(Tail(text))) % (2 ^ 24)

\* The number of hashes _content_history keeps for one pane.
HISTORY_LIMIT == 10

\* A history that keeps its first entries and drops the newest.
Truncate_KeepOldest(h) ==
    IF Len(h) <= HISTORY_LIMIT THEN h ELSE SubSeq(h, 1, HISTORY_LIMIT)

\* self._content_history[pane_id][-10:]
Truncate(h) ==
    IF Len(h) <= HISTORY_LIMIT THEN h
    ELSE SubSeq(h, Len(h) - HISTORY_LIMIT + 1, Len(h))

\* The change component: 0.3 (30 hundredths) when the pane has a history
\* whose last hash differs from the new one.
change_score(history, pane_id, hash) ==
    IF pane_id # "" /\ pane_id \in DOMAIN history
       /\ history[pane_id][Len(history[pane_id])] # hash
    THEN 30 ELSE 0

\* The history after analyze recorded hash for pane_id.
Recorded(history, pane_id, hash) ==
    [p \in DOMAIN history \cup {pane_id} |->
        IF p = pane_id
        THEN Truncate(Append(IF p \in DOMAIN history THEN history[p] ELSE <<>>,
                             hash))
        ELSE history[p]]

\* ----------------------------------------------------------- SpecAnalyzer
\* The pane ids analyze is called with; "" is the default, no pane id.
TrackedIds == {"%1", "%2"}
AnalyzeIds == {""} \cup TrackedIds

\* Empty, whitespace only, and two texts with one word of two letters: "ab"
\* and "a-ba".
Contents == {<<>>, <<" ", "\n">>, <<"a", "b">>, <<"a", "-", "b", "a">>}

\* self._tokenize(content) and self._content_hash(content) of every text.
ContentWords == [content \in Contents |-> tokenize(content)]
ContentHashes == [content \in Contents |-> content_hash(content)]

\* The number of hashes recorded so far, over all panes.
TotalRecorded == Len(recorded["%1"]) + Len(recorded["%2"])

InitAnalyzer ==
    /\ pc = "analyzer"
    /\ content_history = [p \in {} |-> <<>>]
    /\ recorded = [p \in TrackedIds |-> <<>>]
    /\ anResult = <<>>
    /\ PlanIdle
    /\ SizesIdle
    /\ CalcIdle
    /\ ExecIdle
    /\ BlendIdle
    /\ ReflowIdle
    /\ McpIdle
    /\ RelevanceIdle
    /\ ScoresIdle
    /\ FetchIdle
    /\ ChecksumIdle
    /\ SessionIdle

\* result = analyzer.analyze(content, pane_id)
Analyze ==
    /\ pc = "analyzer"
    /\ TotalRecorded < MaxRecorded
    /\ \E content \in Contents, pane_id \in AnalyzeIds :
          LET words == ContentWords[content]
              hash == ContentHashes[content]
          IN IF words = <<>>
             THEN /\ anResult' = [pane_id |-> pane_id, word_count |-> 0,
                                  char_count |-> Len(content),
                                  change_score |-> 0, content_hash |-> hash]
                  /\ UNCHANGED <<content_history, recorded>>
             ELSE /\ anResult' = [pane_id |-> pane_id, word_count |-> Len(words),
                                  char_count |-> Len(content),
                                  change_score |->
                                      change_score(content_history, pane_id, hash),
                                  content_hash |-> hash]
                  /\ IF pane_id # ""
                     THEN /\ content_history' = Recorded(content_history, pane_id, hash)
                          /\ recorded' = [recorded EXCEPT ![pane_id] = Append(@, hash)]
                     ELSE UNCHANGED <<content_history, recorded>>
    /\ UNCHANGED <<pc, planVars, sizeVars, calcVars, execVars, blendVars, rfVars, mcpVars, relVars, scVars, fetchVars, ckVars, ssVars>>

NextAnalyzer == Analyze

SpecAnalyzer == InitAnalyzer /\ [][NextAnalyzer]_vars

\* ----------------------------------------------------------- execute_plan
\* What one tmux command can do: run and exit 0, run and exit with another
\* status (_run_tmux does not look at the status), or fail to run, in which
\* case subprocess.run raises.
Outcomes == {"ok", "nonzero", "raise"}

\* The outcomes the next swap, resize or join command can have: any, until
\* MaxFailures commands of the log have failed.
NextOutcomes(log) ==
    IF Cardinality({i \in 1..Len(log) : log[i].outcome # "ok"}) < MaxFailures
    THEN Outcomes ELSE {"ok"}

JoinStep(a, b) ==
    [operation |-> "join", pane_id |-> a, target_id |-> b, width |-> 0, height |-> 0]

BreakStep(a) ==
    [operation |-> "break", pane_id |-> a, target_id |-> 0, width |-> 0, height |-> 0]

\* target_positions.get(pane_id, 0), target_positions = {p.id: p.y for p in
\* plan.target.panes}: the last pane of that id counts.
TargetY(target_panes, pane_id) ==
    LET ks == {k \in 1..Len(target_panes) : target_panes[k].id = pane_id}
    IN IF ks = {} THEN 0
       ELSE target_panes[CHOOSE k \in ks : \A j \in ks : j <= k].y

\* step inserted into s, sorted by target y ascending.
RECURSIVE InsertByY_Ascending(_, _, _)
InsertByY_Ascending(s, step, target_panes) ==
    IF s = <<>> THEN <<step>>
    ELSE IF TargetY(target_panes, step.pane_id) < TargetY(target_panes, Head(s).pane_id)
         THEN <<step>> \o s
         ELSE <<Head(s)>> \o InsertByY_Ascending(Tail(s), step, target_panes)

\* step inserted into s, sorted by target y descending, after every step whose
\* y is not smaller: list.sort(reverse=True) keeps the order of equal keys.
RECURSIVE InsertByY(_, _, _)
InsertByY(s, step, target_panes) ==
    IF s = <<>> THEN <<step>>
    ELSE IF TargetY(target_panes, step.pane_id) > TargetY(target_panes, Head(s).pane_id)
         THEN <<step>> \o s
         ELSE <<Head(s)>> \o InsertByY(Tail(s), step, target_panes)

RECURSIVE SortedByYFrom(_, _, _)
SortedByYFrom(steps, acc, target_panes) ==
    IF steps = <<>> THEN acc
    ELSE SortedByYFrom(Tail(steps), InsertByY(acc, Head(steps), target_panes),
                       target_panes)

\* resize_steps = [s for s in plan.steps if s.operation == RESIZE], sorted by
\* target y, bottom first.
ResizeOrder(steps, target_panes) ==
    SortedByYFrom(SelectSeq(steps, LAMBDA s : s.operation = "resize"), <<>>,
                  target_panes)

\* current_panes.get(pane_id), current_panes = {p.id: p for p in get_panes()}.
HasPane(ps, pane_id) == \E k \in 1..Len(ps) : ps[k].id = pane_id

PaneOf(ps, pane_id) ==
    ps[CHOOSE k \in 1..Len(ps) :
          /\ ps[k].id = pane_id
          /\ \A j \in 1..Len(ps) : ps[j].id = pane_id => j <= k]

\* Python's None where a width or height is expected.
None == -1

\* "if new_width or new_height": None and 0 are both false.
Truthy(x) == x # None /\ x # 0

\* new_width = step.width if current and step.width != current.width else None
NewWidth(step, ps) ==
    IF HasPane(ps, step.pane_id) /\ step.width # PaneOf(ps, step.pane_id).width
    THEN step.width ELSE None

NewHeight(step, ps) ==
    IF HasPane(ps, step.pane_id) /\ step.height # PaneOf(ps, step.pane_id).height
    THEN step.height ELSE None

\* resize_pane: tmux resize-pane -t pane_id -x width if width is not None,
\* -y height if height is not None.  Only the resized pane's own size is
\* followed; tmux also moves the borders of its neighbours.
resize_pane(ps, pane_id, width, height) ==
    [k \in 1..Len(ps) |->
        IF ps[k].id = pane_id
        THEN [ps[k] EXCEPT !.width = IF width # None THEN width ELSE @,
                           !.height = IF height # None THEN height ELSE @]
        ELSE ps[k]]

\* The index of the first join step of steps at or after k; Len(steps) + 1 if
\* there is none.
RECURSIVE NextJoin(_, _)
NextJoin(steps, k) ==
    IF k > Len(steps) THEN k
    ELSE IF steps[k].operation = "join" THEN k
    ELSE NextJoin(steps, k + 1)

\* --------------------------------------------------------------- SpecExec
\* The window before the plan: every pane 80x24, pane k in cell k - 1.
ExecSnapshot ==
    PaneList(PaneIds, [k \in PaneIds |-> <<(k - 1) \div 2, (k - 1) % 2>>], 80, 24)

\* The sizes <<width, height>> the target gives its panes: both new, the
\* width as it is, both as they are, and the width 0 that calculate gives a
\* pane without score when min_width is 0.
TargetSizes == {<<40, 12>>, <<80, 12>>, <<80, 24>>, <<0, 24>>}

ExecTargets ==
    {PaneList(PaneIds, at, sz[1], sz[2]) : at \in Placements, sz \in TargetSizes}

\* Steps of the other operations a LayoutPlan may carry after plan_layout's.
ExtraSteps == {<<>>, <<JoinStep(1, 2)>>, <<BreakStep(1)>>}

InitExec ==
    /\ pc = "exec_swaps"
    /\ panes = ExecSnapshot
    /\ layout \in ExecTargets
    /\ \E extra \in ExtraSteps : plan = plan_layout(panes, layout) \o extra
    /\ swapIdx = 1
    /\ fetched = <<>>
    /\ resize_steps = <<>>
    /\ execIdx = 1
    /\ success = TRUE
    /\ returned = "none"
    /\ calls = <<>>
    /\ SizesIdle
    /\ CalcIdle
    /\ AnalyzerIdle
    /\ BlendIdle
    /\ ReflowIdle
    /\ McpIdle
    /\ RelevanceIdle
    /\ ScoresIdle
    /\ FetchIdle
    /\ ChecksumIdle
    /\ SessionIdle

\* for step in plan.steps: if step.operation == SWAP:
\*     if not self.swap_panes(step.pane_id, step.target_id): success = False
\* swap_panes returns False only when the command could not be run.
ExecSwapStep ==
    /\ pc = "exec_swaps"
    /\ NextSwap(plan, swapIdx) <= Len(plan)
    /\ LET step == plan[NextSwap(plan, swapIdx)]
       IN \E o \in NextOutcomes(calls) :
             /\ panes' = IF o = "ok"
                         THEN swap_panes(panes, step.pane_id, step.target_id)
                         ELSE panes
             /\ success' = (success /\ o # "raise")
             /\ calls' = Append(calls, [step |-> step, width |-> 0, height |-> 0,
                                        outcome |-> o])
    /\ swapIdx' = NextSwap(plan, swapIdx) + 1
    /\ UNCHANGED <<pc, layout, plan, fetched, resize_steps, execIdx, returned,
                   sizeVars, calcVars, anVars, blendVars, rfVars, mcpVars, relVars, scVars, fetchVars, ckVars, ssVars>>

\* current_panes = {p.id: p for p in self.get_panes()}, outside any try: a
\* list-panes that exits with an error prints nothing, so that no pane is
\* listed; one that cannot be run ends execute_plan with the exception.
FetchPanes ==
    /\ pc = "exec_swaps"
    /\ NextSwap(plan, swapIdx) > Len(plan)
    /\ \E o \in Outcomes :
          /\ fetched' = IF o = "ok" THEN panes ELSE <<>>
          /\ pc' = IF o = "raise" THEN "exec_raised" ELSE "exec_resizes"
          /\ returned' = IF o = "raise" THEN "exception" ELSE returned
          /\ resize_steps' = IF o = "raise" THEN resize_steps
                             ELSE ResizeOrder(plan, layout)
    /\ execIdx' = 1
    /\ fetchedAt' = Append(fetchedAt, Len(calls))
    /\ UNCHANGED <<panes, layout, plan, swapIdx, success, calls,
                   sizeVars, calcVars, anVars, blendVars, rfVars, mcpVars, relVars, scVars, ckVars, ssVars>>

\* for step in resize_steps: ... if new_width or new_height:
\*     if not self.resize_pane(step.pane_id, new_width, new_height): success = False
ExecResizeStep ==
    /\ pc = "exec_resizes"
    /\ execIdx <= Len(resize_steps)
    /\ LET step == resize_steps[execIdx]
           new_width == NewWidth(step, fetched)
           new_height == NewHeight(step, fetched)
       IN IF Truthy(new_width) \/ Truthy(new_height)
          THEN \E o \in NextOutcomes(calls) :
                  /\ panes' = IF o = "ok"
                              THEN resize_pane(panes, step.pane_id, new_width, new_height)
                              ELSE panes
                  /\ success' = (success /\ o # "raise")
                  /\ calls' = Append(calls, [step |-> step, width |-> new_width,
                                             height |-> new_height, outcome |-> o])
          ELSE UNCHANGED <<panes, success, calls>>
    /\ execIdx' = execIdx + 1
    /\ UNCHANGED <<pc, layout, plan, swapIdx, fetched, resize_steps, returned,
                   sizeVars, calcVars, anVars, blendVars, rfVars, mcpVars, relVars, scVars, fetchVars, ckVars, ssVars>>

\* The resize loop is over; the join loop starts at the first step.
ResizesDone ==
    /\ pc = "exec_resizes"
    /\ execIdx > Len(resize_steps)
    /\ pc' = "exec_joins"
    /\ execIdx' = 1
    /\ UNCHANGED <<panes, layout, plan, swapIdx, fetched, resize_steps, success,
                   returned, calls, sizeVars, calcVars, anVars, blendVars, rfVars, mcpVars, relVars, scVars, fetchVars, ckVars, ssVars>>

\* for step in plan.steps: if step.operation == JOIN:
\*     try: self._run_tmux("join-pane", ...) except Exception: success = False
\* Where tmux puts the joined pane is not followed.
ExecJoinStep ==
    /\ pc = "exec_joins"
    /\ NextJoin(plan, execIdx) <= Len(plan)
    /\ LET step == plan[NextJoin(plan, execIdx)]
       IN \E o \in NextOutcomes(calls) :
             /\ success' = (success /\ o # "raise")
             /\ calls' = Append(calls, [step |-> step, width |-> 0, height |-> 0,
                                        outcome |-> o])
    /\ execIdx' = NextJoin(plan, execIdx) + 1
    /\ UNCHANGED <<pc, panes, layout, plan, swapIdx, fetched, resize_steps,
                   returned, sizeVars, calcVars, anVars, blendVars, rfVars, mcpVars, relVars, scVars, fetchVars, ckVars, ssVars>>

\* return success
ExecReturn ==
    /\ pc = "exec_joins"
    /\ NextJoin(plan, execIdx) > Len(plan)
    /\ returned' = IF success THEN "true" ELSE "false"
    /\ pc' = "exec_done"
    /\ UNCHANGED <<panes, layout, plan, swapIdx, fetched, resize_steps, execIdx,
                   success, calls, sizeVars, calcVars, anVars, blendVars, rfVars, mcpVars, relVars, scVars, fetchVars, ckVars, ssVars>>

NextExec ==
    ExecSwapStep \/ FetchPanes \/ ExecResizeStep \/ ResizesDone \/ ExecJoinStep
        \/ ExecReturn

SpecExec == InitExec /\ [][NextExec]_vars

\* ----------------------------------------------------------- LLM blending
\* Scores are in hundredths.  The score an LLMAnalysisResult has when none
\* is given: importance_score = interestingness_score = 0.5.
DEFAULT_SCORE == 50

\* What a provider's analyze_content gets from its service: scores, or a
\* failure (the request raises or times out, the answer is not JSON).
ScorerReplies ==
    {[failed |-> FALSE, importance_score |-> i, interestingness_score |-> j] :
        i \in {0, 50, 100}, j \in {0, 100}}
    \cup {[failed |-> TRUE, importance_score |-> 0, interestingness_score |-> 0]}

\* provider.analyze_content: except Exception as e:
\*     return LLMAnalysisResult(raw_response=str(e))
provider_analyze_content(reply) ==
    IF reply.failed
    THEN [importance_score |-> DEFAULT_SCORE, interestingness_score |-> DEFAULT_SCORE]
    ELSE [importance_score |-> reply.importance_score,
          interestingness_score |-> reply.interestingness_score]

\* (1 - blend) * heuristic + blend * llm, blend in tenths.
Blend(blend, heuristic_score, llm_score) ==
    ((10 - blend) * heuristic_score + blend * llm_score) \div 10

\* analysis.importance_score = ...; analysis.interestingness_score = ...
blended(analysis, llm_result, blend) ==
    [importance_score |->
        Blend(blend, analysis.importance_score, llm_result.importance_score),
     interestingness_score |->
        Blend(blend, analysis.interestingness_score, llm_result.interestingness_score)]

\* -------------------------------------------------------------- SpecBlend
\* The panes of the window, in get_panes order.
BlendPanes == <<1, 2>>

\* The analyzer's scores of a pane, in hundredths.
HeuristicScores ==
    {[importance_score |-> i, interestingness_score |-> j] :
        i \in {0, 80}, j \in {20, 100}}

\* config.llm.blend_ratio (0.4 unless configured), in tenths.
BlendRatios == {0, 4, 10}

\* entry: reflow() of integrations/tmux/reflow.py or cmd_reflow of the CLI;
\* enabled: config.llm.enabled (or --llm); available: llm.is_available().
BlendConfigs ==
    {[entry |-> e, enabled |-> en, available |-> av, blend_ratio |-> b] :
        e \in {"reflow", "cmd_reflow"}, en \in BOOLEAN, av \in BOOLEAN,
        b \in BlendRatios}

InitBlend ==
    /\ pc = "blend_start"
    /\ blendCfg \in BlendConfigs
    /\ blendScores \in [1..Len(BlendPanes) -> HeuristicScores]
    /\ heuristic = blendScores
    /\ llmFailed = {}
    /\ blendIdx = 1
    /\ reflowError = "none"
    /\ PlanIdle
    /\ SizesIdle
    /\ CalcIdle
    /\ AnalyzerIdle
    /\ ExecIdle
    /\ ReflowIdle
    /\ McpIdle
    /\ RelevanceIdle
    /\ ScoresIdle
    /\ FetchIdle
    /\ ChecksumIdle
    /\ SessionIdle

\* if config.llm.enabled: llm = LLMManager(...); if llm.is_available(): ...
\* reflow() passes gemini_key=, a keyword LLMManager.__init__ does not have:
\* the call raises TypeError.  cmd_reflow builds it with get_llm_manager.
CreateManager ==
    /\ pc = "blend_start"
    /\ IF ~blendCfg.enabled
       THEN pc' = "blended" /\ UNCHANGED reflowError
       ELSE IF blendCfg.entry = "reflow"
            THEN pc' = "blend_error" /\ reflowError' = "TypeError"
            ELSE /\ pc' = IF blendCfg.available THEN "blending" ELSE "blended"
                 /\ UNCHANGED reflowError
    /\ UNCHANGED <<blendScores, heuristic, llmFailed, blendIdx, blendCfg,
                   planVars, sizeVars, calcVars, anVars, execVars, rfVars, mcpVars, relVars, scVars, fetchVars, ckVars, ssVars>>

\* for pane in panes: llm_result = llm.analyze_content(pane.content)
\*     if llm_result: analysis.importance_score = ...
\* llm_result is None when no provider is available any more; a result
\* object is always true.
BlendPane ==
    /\ pc = "blending"
    /\ blendIdx <= Len(BlendPanes)
    /\ \/ \E reply \in ScorerReplies :
             /\ blendScores' = [blendScores EXCEPT ![blendIdx] =
                                blended(@, provider_analyze_content(reply),
                                        blendCfg.blend_ratio)]
             /\ llmFailed' = IF reply.failed THEN llmFailed \cup {blendIdx}
                             ELSE llmFailed
       \/ UNCHANGED <<blendScores, llmFailed>>
    /\ blendIdx' = blendIdx + 1
    /\ UNCHANGED <<pc, heuristic, blendCfg, reflowError,
                   planVars, sizeVars, calcVars, anVars, execVars, rfVars, mcpVars, relVars, scVars, fetchVars, ckVars, ssVars>>

BlendDone ==
    /\ pc = "blending"
    /\ blendIdx > Len(BlendPanes)
    /\ pc' = "blended"
    /\ UNCHANGED <<blendScores, heuristic, llmFailed, blendIdx, blendCfg, reflowError,
                   planVars, sizeVars, calcVars, anVars, execVars, rfVars, mcpVars, relVars, scVars, fetchVars, ckVars, ssVars>>

NextBlend == CreateManager \/ BlendPane \/ BlendDone

SpecBlend == InitBlend /\ [][NextBlend]_vars

\* ----------------------------------------------------------------- reflow
\* reflow() of integrations/tmux/reflow.py, cmd_reflow of the CLI and
\* SessionOptimizer.analyze_session, as far as their calls on the adapter, the
\* analyzer and the planner go.  rfLog lists those calls in order.
RfEntries == {"reflow", "cmd_reflow", "analyze_session"}

\* The window reflow works on, and its n panes side by side, pane 1 active.
RF_WIDTH == 120
RF_HEIGHT == 30

RfPanes(n) ==
    [k \in 1..n |-> [id |-> k, x |-> (k - 1) * (RF_WIDTH \div n), y |-> 0,
                     width |-> RF_WIDTH \div n, height |-> RF_HEIGHT,
                     active |-> (k = 1)]]

\* A guard that never sees the adapter as unavailable.
Unavailable_Never(cfg) == FALSE

\* if not provider.is_available():
Unavailable(cfg) == ~cfg.available

\* What the entry point gives back when the adapter is not available.
UnavailableResult(entry) ==
    CASE entry = "reflow" -> [error |-> "Not in tmux session"]
      [] entry = "cmd_reflow" -> [error |-> "Not in a tmux session", exit |-> 1]
      [] OTHER -> [error |-> "Provider not available"]

\* len(panes) < 2 in reflow and cmd_reflow, not all_panes in analyze_session.
TooFewPanes(entry, ps) ==
    IF entry = "analyze_session" THEN Len(ps) = 0 ELSE Len(ps) < 2

TooFewResult(entry) ==
    IF entry = "analyze_session" THEN [error |-> "No panes found"]
    ELSE [status |-> "skipped"]

\* The adapter's panes after the swaps of steps, each command succeeding.
RECURSIVE RunSwaps(_, _)
RunSwaps(ps, steps) ==
    IF steps = <<>> THEN ps
    ELSE RunSwaps(IF Head(steps).operation = "swap"
                  THEN swap_panes(ps, Head(steps).pane_id, Head(steps).target_id)
                  ELSE ps,
                  Tail(steps))

\* The resize steps that execute_plan hands to the adapter, in its order: those
\* with a dimension that differs from the fetched snapshot.
NeededResizes(steps, target_panes, fetched_panes) ==
    SelectSeq(ResizeOrder(steps, target_panes),
              LAMBDA s : Truthy(NewWidth(s, fetched_panes))
                             \/ Truthy(NewHeight(s, fetched_panes)))

RECURSIVE RunResizes(_, _, _)
RunResizes(ps, steps, fetched_panes) ==
    IF steps = <<>> THEN ps
    ELSE RunResizes(resize_pane(ps, Head(steps).pane_id,
                                NewWidth(Head(steps), fetched_panes),
                                NewHeight(Head(steps), fetched_panes)),
                    Tail(steps), fetched_panes)

\* The adapter calls of execute_plan(steps) when every command succeeds.
ExecuteLog(steps, target_panes, ps) ==
    [k \in 1..Len(SwapsOf(steps)) |-> "swap_panes"] \o <<"get_panes">>
        \o [k \in 1..Len(NeededResizes(steps, target_panes, RunSwaps(ps, steps)))
                |-> "resize_pane"]

\* The adapter's panes after execute_plan(steps) when every command succeeds.
Executed(steps, target_panes, ps) ==
    LET swapped == RunSwaps(ps, steps)
    IN RunResizes(swapped, NeededResizes(steps, target_panes, swapped), swapped)

\* ------------------------------------------------------------- SpecReflow
InitReflow ==
    /\ pc = "rf_start"
    /\ \E n \in 0..NumPanes, entry \in RfEntries, available \in BOOLEAN,
          dry_run \in BOOLEAN, llm_enabled \in BOOLEAN, strategy \in LayoutStrategies :
          \E analyses \in [1..n -> Profiles] :
              /\ panes = RfPanes(n)
              /\ rfCfg = [entry |-> entry, available |-> available,
                          dry_run |-> dry_run, llm_enabled |-> llm_enabled,
                          strategy |-> strategy, analyses |-> analyses]
    /\ layout = <<>>
    /\ plan = <<>>
    /\ swapIdx = 1
    /\ rfLog = <<>>
    /\ rfResult = <<>>
    /\ SizesIdle
    /\ CalcIdle
    /\ AnalyzerIdle
    /\ ExecIdle
    /\ BlendIdle
    /\ McpIdle
    /\ RelevanceIdle
    /\ ScoresIdle
    /\ FetchIdle
    /\ ChecksumIdle
    /\ SessionIdle

\* provider.is_available(), and the return when it says no.
RfCheckAvailable ==
    /\ pc = "rf_start"
    /\ rfLog' = Append(rfLog, "is_available")
    /\ IF Unavailable(rfCfg)
       THEN /\ rfResult' = UnavailableResult(rfCfg.entry)
            /\ pc' = "rf_done"
       ELSE /\ UNCHANGED rfResult
            /\ pc' = "rf_enumerate"
    /\ UNCHANGED <<rfCfg, planVars, sizeVars, calcVars, anVars, execVars, blendVars, mcpVars, relVars, scVars, fetchVars, ckVars, ssVars>>

\* panes = provider.get_panes() (get_all_panes in analyze_session), and the
\* return when there are too few.
RfGetPanes ==
    /\ pc = "rf_enumerate"
    /\ rfLog' = Append(rfLog, IF rfCfg.entry = "analyze_session" THEN "get_all_panes"
                              ELSE "get_panes")
    /\ IF TooFewPanes(rfCfg.entry, panes)
       THEN /\ rfResult' = TooFewResult(rfCfg.entry)
            /\ pc' = "rf_done"
       ELSE /\ UNCHANGED rfResult
            /\ pc' = "rf_analyze"
    /\ UNCHANGED <<rfCfg, planVars, sizeVars, calcVars, anVars, execVars, blendVars, mcpVars, relVars, scVars, fetchVars, ckVars, ssVars>>

\* analyses = analyzer.analyze_panes(panes), then the LLM enhancement:
\* reflow's LLMManager(gemini_key=...) raises TypeError; cmd_reflow's blending
\* may move every score.  analyze_session returns its report.
RfAnalyze ==
    /\ pc = "rf_analyze"
    /\ rfLog' = Append(rfLog, "analyze_panes")
    /\ IF rfCfg.entry = "analyze_session"
       THEN /\ rfResult' = [pane_count |-> Len(panes)]
            /\ pc' = "rf_done"
            /\ UNCHANGED rfCfg
       ELSE IF ~rfCfg.llm_enabled
       THEN /\ pc' = "rf_layout"
            /\ UNCHANGED <<rfResult, rfCfg>>
       ELSE IF rfCfg.entry = "reflow"
       THEN /\ rfResult' = [exception |-> "TypeError"]
            /\ pc' = "rf_done"
            /\ UNCHANGED rfCfg
       ELSE /\ \E blent \in [1..Len(panes) -> Profiles] :
                  rfCfg' = [rfCfg EXCEPT !.analyses = blent]
            /\ pc' = "rf_layout"
            /\ UNCHANGED rfResult
    /\ UNCHANGED <<planVars, sizeVars, calcVars, anVars, execVars, blendVars, mcpVars, relVars, scVars, fetchVars, ckVars, ssVars>>

\* width, height = provider.get_window_size(); layout = calc.calculate(...);
\* in reflow also plan = provider.plan_layout(layout), which lists the panes.
RfCalculate ==
    /\ pc = "rf_layout"
    /\ LET target == calculate([panes |-> panes,
                                analyses |-> rfCfg.analyses,
                                window_width |-> RF_WIDTH,
                                window_height |-> RF_HEIGHT,
                                relevance_matrix |-> <<>>,
                                layout_type |-> "auto",
                                strategy |-> rfCfg.strategy,
                                min_width |-> MIN_WIDTH,
                                min_height |-> MIN_HEIGHT])
       IN /\ layout' = target
          /\ IF rfCfg.entry = "reflow"
             THEN /\ plan' = plan_layout(panes, target)
                  /\ rfLog' = rfLog \o <<"get_window_size", "calculate",
                                         "plan_layout", "get_panes">>
             ELSE /\ UNCHANGED plan
                  /\ rfLog' = rfLog \o <<"get_window_size", "calculate">>
    /\ pc' = "rf_apply"
    /\ UNCHANGED <<panes, swapIdx, rfCfg, rfResult,
                   sizeVars, calcVars, anVars, execVars, blendVars, mcpVars, relVars, scVars, fetchVars, ckVars, ssVars>>

\* if not dry_run: provider.execute_plan(plan) in reflow,
\* provider.apply_layout(layout) (plan_layout, then execute_plan) in cmd_reflow.
RfApply ==
    /\ pc = "rf_apply"
    /\ IF rfCfg.dry_run
       THEN /\ rfResult' = [status |-> IF rfCfg.entry = "reflow" THEN "dry_run"
                                       ELSE "calculated"]
            /\ UNCHANGED <<panes, plan, rfLog>>
       ELSE LET steps == IF rfCfg.entry = "reflow" THEN plan
                         ELSE plan_layout(panes, layout)
            IN /\ plan' = steps
               /\ panes' = Executed(steps, layout, panes)
               /\ rfLog' = rfLog
                            \o (IF rfCfg.entry = "reflow" THEN <<>>
                                ELSE <<"plan_layout", "get_panes">>)
                            \o ExecuteLog(steps, layout, panes)
               /\ rfResult' = [status |-> "applied"]
    /\ pc' = "rf_done"
    /\ UNCHANGED <<layout, swapIdx, rfCfg, sizeVars, calcVars, anVars, execVars, blendVars, mcpVars, relVars, scVars, fetchVars, ckVars, ssVars>>

NextReflow == RfCheckAvailable \/ RfGetPanes \/ RfAnalyze \/ RfCalculate \/ RfApply

SpecReflow == InitReflow /\ [][NextReflow]_vars

\* ------------------------------------------------------------- MCP server
\* A pane record of a request is a JSON object: a function from its keys.
\* Well-formed records have "id" and "content"; the others lack one of them.
GoodRecords ==
    {[id |-> i, content |-> c] : i \in TrackedIds, c \in {<<>>, <<"a", "b">>}}

BadRecords == {[id |-> "%2"], [content |-> <<"a", "b">>]}

PaneRecords == GoodRecords \cup BadRecords

\* PaneData(id=p["id"], content=p["content"], ...) raises KeyError for a
\* record without the key; the list comprehension then builds no list.
WellFormed(records) ==
    \A k \in 1..Len(records) : {"id", "content"} \subseteq DOMAIN records[k]

\* LayoutStrategy(strategy) and LayoutType(layout_type) raise ValueError for a
\* value that is no member of the enum.
KnownStrategy(strategy) == strategy \in LayoutStrategies

KnownLayoutType(layout_type) == layout_type \in LayoutTypes

\* The history after analyze(content, pane_id): nothing is recorded without a
\* pane id, nor for a content without words (the early return).
HistoryAfter(history, content, pane_id) ==
    IF pane_id = "" \/ tokenize(content) = <<>> THEN history
    ELSE Recorded(history, pane_id, content_hash(content))

\* The history after analyze_panes(ps): {pane.id: self.analyze_pane(pane) ...}
RECURSIVE HistoryAfterPanes(_, _)
HistoryAfterPanes(history, ps) ==
    IF ps = <<>> THEN history
    ELSE HistoryAfterPanes(HistoryAfter(history, Head(ps).content, Head(ps).id),
                           Tail(ps))

\* The <<importance, interestingness, activity>> scores, in tenths, that
\* analyze may give a content: the defaults 0.0 of AnalysisResult when it has
\* no word; otherwise they depend on entropies that are not followed here.
ScoreChoices(content) ==
    IF tokenize(content) = <<>> THEN {<<0, 0, 0>>} ELSE {<<10, 0, 0>>, <<0, 6, 6>>}

\* The scores analyze_panes may give the panes of records, one by one.
RECURSIVE ScoreLists(_)
ScoreLists(records) ==
    IF records = <<>> THEN {<<>>}
    ELSE {<<s>> \o rest : s \in ScoreChoices(Head(records).content),
                          rest \in ScoreLists(Tail(records))}

\* analyze_panes' dict for the panes ps whose k-th analysis scored sc[k]: the
\* last pane of an id is the one the dict keeps.
AnalysesDict(ps, sc) ==
    [i \in {ps[k].id : k \in 1..Len(ps)} |->
        sc[CHOOSE k \in 1..Len(ps) :
              /\ ps[k].id = i
              /\ \A j \in 1..Len(ps) : ps[j].id = i => j <= k]]

\* PaneData(id=p["id"], content=p["content"]): not the active pane.
PaneDataOf(records) ==
    [k \in 1..Len(records) |->
        [id |-> records[k].id, content |-> records[k].content, active |-> FALSE]]

\* ---------------------------------------------------------------- SpecMcp
\* The requests: panefit_analyze and panefit_calculate_layout with up to
\* MaxReqPanes pane records, or without the "panes" key.
RequestPanes ==
    UNION {[1..n -> PaneRecords] : n \in 0..MaxReqPanes}

\* The strategy and layout type of a request: the defaults, another member
\* of the enum, and a string that is none.
RequestStrategies == {"balanced", "importance", "bogus"}
RequestLayoutTypes == {"auto", "tiled", "bogus"}

\* The window size and the minimum sizes _tool_calculate_layout uses when
\* the request names none.
MCP_WIDTH == 200
MCP_HEIGHT == 50

\* What the server's tmux property finds: no tmux, a tmux without panes, or
\* one with a pane.
TmuxStates == {"none", "empty", "one"}

TmuxPanes(tmux) ==
    IF tmux = "one" THEN <<[id |-> "%1", content |-> <<"a", "b">>, active |-> TRUE]>>
    ELSE <<>>

InitMcp ==
    /\ pc = "mcp"
    /\ mcpTmux \in TmuxStates
    /\ mcpRequest = <<>>
    /\ mcpResult = <<>>
    /\ mcpBefore = <<>>
    /\ mcpCount = 0
    /\ content_history = [p \in {} |-> <<>>]
    /\ recorded = <<>>
    /\ anResult = <<>>
    /\ PlanIdle
    /\ SizesIdle
    /\ CalcIdle
    /\ ExecIdle
    /\ BlendIdle
    /\ ReflowIdle
    /\ RelevanceIdle
    /\ ScoresIdle
    /\ FetchIdle
    /\ ChecksumIdle
    /\ SessionIdle

\* handle_tool_call("panefit_analyze", args): _tool_analyze, any exception
\* turned into {"error": str(e)}.
ToolAnalyze ==
    /\ pc = "mcp"
    /\ mcpCount < MaxRequests
    /\ \E has_panes \in BOOLEAN, records \in RequestPanes :
          /\ has_panes \/ records = <<>>
          /\ mcpRequest' = [tool |-> "panefit_analyze", has_panes |-> has_panes,
                            panes |-> records]
          /\ IF has_panes /\ records # <<>>
             THEN IF ~WellFormed(records)
                  THEN /\ mcpResult' = [error |-> "KeyError"]
                       /\ UNCHANGED content_history
                  ELSE /\ content_history' =
                              HistoryAfterPanes(content_history, PaneDataOf(records))
                       /\ mcpResult' = [panes |-> [k \in 1..Len(records) |-> records[k].id]]
             ELSE IF mcpTmux # "none"
                  THEN /\ content_history' =
                              HistoryAfterPanes(content_history, TmuxPanes(mcpTmux))
                       /\ mcpResult' = [panes |-> [k \in 1..Len(TmuxPanes(mcpTmux)) |->
                                                      TmuxPanes(mcpTmux)[k].id]]
                  ELSE /\ mcpResult' =
                              [error |-> "No panes provided and tmux not available"]
                       /\ UNCHANGED content_history
    /\ mcpBefore' = content_history
    /\ mcpCount' = mcpCount + 1
    /\ UNCHANGED <<pc, mcpTmux, recorded, anResult, planVars, sizeVars, calcVars,
                   execVars, blendVars, rfVars, relVars, scVars, fetchVars, ckVars, ssVars>>

\* handle_tool_call("panefit_calculate_layout", args): _tool_calculate_layout,
\* any exception turned into {"error": str(e)}.  The panes are analyzed
\* before the calculator is built from the strategy.
ToolCalculateLayout ==
    /\ pc = "mcp"
    /\ mcpCount < MaxRequests
    /\ \E has_panes \in BOOLEAN, records \in RequestPanes,
          strategy \in RequestStrategies, layout_type \in RequestLayoutTypes :
          /\ has_panes \/ records = <<>>
          /\ mcpRequest' = [tool |-> "panefit_calculate_layout",
                            has_panes |-> has_panes, panes |-> records,
                            strategy |-> strategy, layout_type |-> layout_type]
          /\ IF ~has_panes \/ ~WellFormed(records)
             THEN /\ mcpResult' = [error |-> "KeyError"]
                  /\ UNCHANGED content_history
             ELSE /\ content_history' =
                         HistoryAfterPanes(content_history, PaneDataOf(records))
                  /\ IF ~KnownStrategy(strategy) \/ ~KnownLayoutType(layout_type)
                     THEN mcpResult' = [error |-> "ValueError"]
                     ELSE \E sc \in ScoreLists(records) :
                             /\ mcpResult' =
                                   [window |-> <<MCP_WIDTH, MCP_HEIGHT>>,
                                    strategy |-> strategy,
                                    panes |-> calculate(
                                       [panes |-> PaneDataOf(records),
                                        analyses |-> AnalysesDict(PaneDataOf(records), sc),
                                        window_width |-> MCP_WIDTH,
                                        window_height |-> MCP_HEIGHT,
                                        relevance_matrix |-> <<>>,
                                        layout_type |-> layout_type,
                                        strategy |-> strategy,
                                        min_width |-> MIN_WIDTH,
                                        min_height |-> MIN_HEIGHT])]
    /\ mcpBefore' = content_history
    /\ mcpCount' = mcpCount + 1
    /\ UNCHANGED <<pc, mcpTmux, recorded, anResult, planVars, sizeVars, calcVars,
                   execVars, blendVars, rfVars, relVars, scVars, fetchVars, ckVars, ssVars>>

NextMcp == ToolAnalyze \/ ToolCalculateLayout

SpecMcp == InitMcp /\ [][NextMcp]_vars

\* ------------------------------------------------------ calculate_relevance
\* The members of CODE_KEYWORDS and of STOP_WORDS that WordChars can spell
\* and _tokenize can return (two letters or more).
CODE_KEYWORDS == {<<"d", "e", "f">>, <<"i", "f">>}
STOP_WORDS == {<<"b", "e">>, <<"i", "f">>, <<"d", "i", "d">>}

\* _extract_keywords(text, top_n=20)
TOP_N == 20

Count(ws, w) == Cardinality({k \in 1..Len(ws) : ws[k] = w})

\* Counter(ws) in most_common's order: every word once, by count descending,
\* words of one count in the order of their first occurrence (the sort is
\* stable and the Counter keeps insertion order).
SortedByCount(ws) ==
    LET first == {k \in 1..Len(ws) : \A m \in 1..(k - 1) : ws[m] # ws[k]}
        Rank(k) == Cardinality({m \in first :
                        \/ Count(ws, ws[m]) > Count(ws, ws[k])
                        \/ Count(ws, ws[m]) = Count(ws, ws[k]) /\ m < k})
        order == {<<Rank(k) + 1, k>> : k \in first}
    IN [i \in 1..Cardinality(first) |-> ws[(CHOOSE p \in order : p[1] = i)[2]]]

FirstN(s, n) == SubSeq(s, 1, IF Len(s) < n THEN Len(s) ELSE n)

\* Counter(ws).most_common(n)
most_common(ws, n) == FirstN(SortedByCount(ws), n)

\* _extract_keywords
extract_keywords(text) ==
    FirstN(SelectSeq(most_common(tokenize(text), TOP_N * 2),
                     LAMBDA w : w \notin STOP_WORDS),
           TOP_N)

SetOf(s) == {s[k] : k \in 1..Len(s)}

\* A ratio that divides by the size of the first set alone.
Ratio_OverFirst(s1, s2) ==
    IF s1 \cup s2 = {} THEN <<0, 1>>
    ELSE <<Cardinality(s1 \cap s2), IF s1 = {} THEN 1 ELSE Cardinality(s1)>>

\* len(s1 & s2) / len(s1 | s2) if (s1 | s2) else 0.0, as <<numerator,
\* denominator>>.
Ratio(s1, s2) ==
    IF s1 \cup s2 = {} THEN <<0, 1>>
    ELSE <<Cardinality(s1 \cap s2), Cardinality(s1 \cup s2)>>

\* topic_similarity
TopicSimilarity(words1, words2) ==
    LET code_words1 == words1 \cap CODE_KEYWORDS
        code_words2 == words2 \cap CODE_KEYWORDS
    IN IF code_words1 # {} /\ code_words2 # {} THEN Ratio(code_words1, code_words2)
       ELSE IF code_words1 = {} /\ code_words2 = {} THEN <<1, 2>>
       ELSE <<0, 1>>

\* 0.4 * jaccard + 0.3 * word_jaccard + 0.3 * topic_similarity
Combined(j, wj, t) ==
    <<4 * j[1] * wj[2] * t[2] + 3 * wj[1] * j[2] * t[2] + 3 * t[1] * j[2] * wj[2],
      10 * j[2] * wj[2] * t[2]>>

\* Analyzer.calculate_relevance: its RelevanceResult without the pane ids;
\* shared_keywords is the set the list is made from.
calculate_relevance(content1, content2) ==
    LET keywords1 == SetOf(extract_keywords(content1))
        keywords2 == SetOf(extract_keywords(content2))
        jaccard == Ratio(keywords1, keywords2)
        words1 == SetOf(tokenize(content1))
        words2 == SetOf(tokenize(content2))
        word_jaccard == Ratio(words1, words2)
        topic_similarity == TopicSimilarity(words1, words2)
    IN [shared_keywords |-> keywords1 \cap keywords2,
        jaccard_similarity |-> jaccard,
        topic_similarity |-> topic_similarity,
        combined_score |-> Combined(jaccard, word_jaccard, topic_similarity)]

\* ----------------------------------------------------------- SpecRelevance
\* words joined by single spaces.
RECURSIVE Join(_)
Join(ws) ==
    IF ws = <<>> THEN <<>>
    ELSE IF Len(ws) = 1 THEN Head(ws)
    ELSE Head(ws) \o <<" ">> \o Join(Tail(ws))

\* The k-th word of three letters over a, b, d and e: k read in base 4.
Letter(n) == CASE n = 0 -> "a" [] n = 1 -> "b" [] n = 2 -> "d" [] OTHER -> "e"

Word3(k) == <<Letter(k \div 16), Letter((k \div 4) % 4), Letter(k % 4)>>

\* A text of 45 different words, more than most_common(40) returns: every
\* fourth character is a space.
LongText ==
    [i \in 1..179 |-> IF i % 4 = 0 THEN " " ELSE Word3((i - 1) \div 4)[((i - 1) % 4) + 1]]

\* The texts whose relevance is calculated: empty, plain words, repeated
\* words, code keywords, stop words, the long text, and texts sharing a word
\* that is, or is not, among the long text's keywords.
RelTexts ==
    {<<>>,
     Join(<<<<"a", "b">>, <<"b", "a">>>>),
     Join(<<<<"b", "a">>, <<"a", "b">>, <<"a", "b">>, <<"b", "b">>>>),
     Join(<<<<"i", "f">>, <<"d", "e", "f">>, <<"a", "b">>>>),
     Join(<<<<"d", "e", "f">>, <<"b", "a">>>>),
     Join(<<<<"b", "e">>, <<"a", "b">>, <<"d", "i", "d">>>>),
     Join(<<<<"i", "f">>>>),
     LongText,
     Join(<<Word3(3), <<"a", "b">>>>),
     Join(<<Word3(30), Word3(41), <<"d", "e", "f">>>>)}

InitRelevance ==
    /\ pc = "rel_start"
    /\ relA \in RelTexts
    /\ relB \in RelTexts
    /\ relAB = <<>>
    /\ relBA = <<>>
    /\ PlanIdle
    /\ SizesIdle
    /\ CalcIdle
    /\ AnalyzerIdle
    /\ ExecIdle
    /\ BlendIdle
    /\ ReflowIdle
    /\ McpIdle
    /\ ScoresIdle
    /\ FetchIdle
    /\ ChecksumIdle
    /\ SessionIdle

\* calculate_relevance(A, B) and calculate_relevance(B, A)
Relate ==
    /\ pc = "rel_start"
    /\ relAB' = calculate_relevance(relA, relB)
    /\ relBA' = calculate_relevance(relB, relA)
    /\ pc' = "related"
    /\ UNCHANGED <<relA, relB, planVars, sizeVars, calcVars, anVars, execVars,
                   blendVars, rfVars, mcpVars, scVars, fetchVars, ckVars, ssVars>>

NextRelevance == Relate

SpecRelevance == InitRelevance /\ [][NextRelevance]_vars

\* ----------------------------------------------------------- analyze scores
\* Scores are held in thousandths, rounded down: 1000 is the score 1.0.

\* math.log2(num / den) in thousandths, for num >= den >= 1: the whole part
\* by halving, ten binary places by squaring a fixed-point value of twelve
\* binary places.
RECURSIVE WholeLog2(_, _)
WholeLog2(num, den) == IF 2 * den <= num THEN 1 + WholeLog2(num, 2 * den) ELSE 0

RECURSIVE FracLog2(_, _)
FracLog2(y, places) ==
    IF places = 0 THEN 0
    ELSE LET sq == (y * y) \div 4096
         IN IF sq >= 8192
            THEN 2 ^ (places - 1) + FracLog2(sq \div 2, places - 1)
            ELSE FracLog2(sq, places - 1)

log2(num, den) ==
    LET whole == WholeLog2(num, den)
    IN 1000 * whole
         + (1000 * FracLog2((num * 4096) \div (den * 2 ^ whole), 10)) \div 1024

\* math.sqrt(n) in thousandths: the largest r with r * r <= n * 10^6.
RECURSIVE SqrtBetween(_, _, _)
SqrtBetween(n, lo, hi) ==
    IF lo >= hi THEN lo
    ELSE LET mid == (lo + hi + 1) \div 2
         IN IF mid * mid <= n * 1000000 THEN SqrtBetween(n, mid, hi)
            ELSE SqrtBetween(n, lo, mid - 1)

sqrt(n) == SqrtBetween(n, 0, 1000 * n)

\* min(1.0, x) without the cap.
Capped_Not(x) == x

\* min(1.0, x)
Capped(x) == IF x > 1000 THEN 1000 ELSE x

RECURSIVE SumOver(_, _)
SumOver(f, S) ==
    IF S = {} THEN 0
    ELSE LET x == CHOOSE y \in S : TRUE IN f[x] + SumOver(f, S \ {x})

\* _calculate_entropy: the sum over the distinct items of -p * log2(p),
\* p = count / total.
calculate_entropy(items) ==
    IF items = <<>> THEN 0
    ELSE LET total == Len(items)
             term == [x \in SetOf(items) |->
                         (Count(items, x) * log2(total, Count(items, x))) \div total]
         IN SumOver(term, SetOf(items))

\* Analyzer(ngram_size=3)
NGRAM_SIZE == 3

\* _calculate_surprisal: for every position i the context is the ngram
\* before it; total counts the positions with that context, word_count those
\* that also continue with the same word.
calculate_surprisal(text) ==
    LET words == tokenize(text)
        positions == 1..(Len(words) - NGRAM_SIZE)
        Context(i) == SubSeq(words, i, i + NGRAM_SIZE - 1)
        NextWord(i) == words[i + NGRAM_SIZE]
        Total(i) == Cardinality({j \in positions : Context(j) = Context(i)})
        WordCount(i) == Cardinality({j \in positions :
                             Context(j) = Context(i) /\ NextWord(j) = NextWord(i)})
        surprisal == [i \in positions |-> log2(Total(i), WordCount(i))]
    IN IF Len(words) < NGRAM_SIZE + 1 THEN 500
       ELSE Capped((SumOver(surprisal, positions) \div Cardinality(positions)) \div 10)

\* text.strip()
Strip(text) ==
    LET kept == {k \in 1..Len(text) : text[k] \notin SpaceChars}
    IN IF kept = {} THEN <<>>
       ELSE SubSeq(text, CHOOSE k \in kept : \A m \in kept : k <= m,
                         CHOOSE k \in kept : \A m \in kept : k >= m)

\* text.split('\n'): the pieces between the line ends; one more than there
\* are line ends, empty pieces included.
SplitLines(text) ==
    LET ends == {k \in 1..Len(text) : text[k] = "\n"}
        End(i) == IF i = 0 THEN 0
                  ELSE IF i > Cardinality(ends) THEN Len(text) + 1
                  ELSE CHOOSE k \in ends : Cardinality({m \in ends : m < k}) = i - 1
    IN [i \in 1..(Cardinality(ends) + 1) |-> SubSeq(text, End(i - 1) + 1, End(i) - 1)]

\* lines[-20:]
RECENT_LINES == 20

LastN(s, n) == IF Len(s) <= n THEN s ELSE SubSeq(s, Len(s) - n + 1, Len(s))

\* re.search(pattern, line) for some pattern of ACTIVITY_PATTERNS: of these,
\* the shell prompt ^\$\s and the continuation prompt ^>\s; the others need
\* digits or letters no text of the model has.
MatchesActivity(line) ==
    /\ Len(line) >= 2
    /\ line[1] \in {"$", ">"}
    /\ line[2] \in SpaceChars

\* _detect_activity: 0.1 for every recent line with an activity pattern and
\* 0.02 for every recent line that is not blank.
detect_activity(text) ==
    LET recent_lines == LastN(SplitLines(Strip(text)), RECENT_LINES)
        matching == {k \in 1..Len(recent_lines) : MatchesActivity(recent_lines[k])}
        non_empty_recent == {k \in 1..Len(recent_lines) : Strip(recent_lines[k]) # <<>>}
    IN Capped(100 * Cardinality(matching) + 20 * Cardinality(non_empty_recent))

Smaller(a, b) == IF a < b THEN a ELSE b

Distance(a, b) == IF a < b THEN b - a ELSE a - b

\* Analyzer.analyze: the score fields of its AnalysisResult, with the hash and
\* the counts; changed is the change component in hundredths.
analyze_scores(content, changed) ==
    LET words == tokenize(content)
        char_entropy == calculate_entropy(content)
        word_count == Len(words)
        unique_words == SetOf(words)
        unique_word_ratio == (1000 * Cardinality(unique_words)) \div word_count
        vocabulary_richness ==
            (1000000 * Cardinality(unique_words)) \div sqrt(word_count)
        activity_score == detect_activity(content)
        surprisal_score == calculate_surprisal(content)
        code_keyword_ratio ==
            (1000 * Cardinality(unique_words \cap CODE_KEYWORDS))
                \div Cardinality(unique_words)
        importance_score ==
            Capped((20 * Smaller(1000, (1000 * word_count) \div 500)
                    + 20 * activity_score
                    + 15 * unique_word_ratio
                    + 15 * code_keyword_ratio
                    + 15 * (10 * changed)
                    + 15 * Smaller(1000, char_entropy \div 5)) \div 100)
        distance == Distance(char_entropy, 4000) \div 4
        entropy_interestingness == IF distance > 1000 THEN 0 ELSE 1000 - distance
        interestingness_score ==
            Capped((25 * surprisal_score
                    + 25 * entropy_interestingness
                    + 25 * (vocabulary_richness \div 10)
                    + 25 * activity_score) \div 100)
    IN IF words = <<>>
       THEN [surprisal_score |-> 0, recent_activity_score |-> 0,
             importance_score |-> 0, interestingness_score |-> 0,
             word_count |-> 0, char_count |-> Len(content),
             content_hash |-> content_hash(content)]
       ELSE [surprisal_score |-> surprisal_score,
             recent_activity_score |-> activity_score,
             importance_score |-> importance_score,
             interestingness_score |-> interestingness_score,
             word_count |-> word_count, char_count |-> Len(content),
             content_hash |-> content_hash(content)]

\* -------------------------------------------------------------- SpecScores
\* lines joined by line ends.
RECURSIVE JoinLines(_)
JoinLines(ls) ==
    IF ls = <<>> THEN <<>>
    ELSE IF Len(ls) = 1 THEN Head(ls)
    ELSE Head(ls) \o <<"\n">> \o JoinLines(Tail(ls))

Ab == <<"a", "b">>
Ba == <<"b", "a">>
PromptLine == <<"$", " ", "a", "b">>

\* The texts analyze scores: without words, with fewer words than an ngram
\* and its next word, with repeated contexts that continue in one way and
\* in several, with prompts, blank lines and code keywords, and with nine
\* prompt lines (0.12 each).
ScoreTexts ==
    {<<>>,
     <<" ", "\n", "$">>,
     Ab,
     Join(<<Ab, Ab, Ab, Ab, Ab>>),
     Join(<<Ab, Ab, Ab, Ab, Ab, Ab, Ba>>),
     Join(<<Ab, Ba, Ab, Ba, Ab, Ab, Ba, Ba>>),
     Join(<<Ab, Ba, <<"b", "b">>, <<"a", "a">>, <<"d", "e">>, <<"e", "d">>,
            <<"f", "i">>>>),
     Join(<<<<"i", "f">>, <<"d", "e", "f">>, Ab, <<"d", "e", "f">>>>),
     JoinLines(<<PromptLine, <<">", " ", "b", "a">>, <<"i", "f", " ", "a", "b">>>>),
     JoinLines(<<<<" ">>, PromptLine \o <<" ">>, <<>>, <<"$", "a", "b">>, <<" ">>>>),
     JoinLines([k \in 1..9 |-> IF k = 9 THEN <<"$", " ", "b", "a">> ELSE PromptLine]),
     JoinLines([k \in 1..5 |-> IF k % 2 = 1 THEN PromptLine ELSE <<"d", "e", "f", "-", "i", "f">>])}

\* The pane's history before the call: none, or the hash of an earlier text.
ScoreHistories ==
    {[p \in {} |-> <<>>]}
        \cup {[p \in {"%1"} |-> <<content_hash(t)>>] :
                 t \in {u \in ScoreTexts : tokenize(u) # <<>>}}

InitScores ==
    /\ pc = "scores"
    /\ scContent \in ScoreTexts
    /\ scPane \in {"", "%1"}
    /\ content_history \in ScoreHistories
    /\ recorded = [p \in TrackedIds |-> <<>>]
    /\ anResult = <<>>
    /\ PlanIdle
    /\ SizesIdle
    /\ CalcIdle
    /\ ExecIdle
    /\ BlendIdle
    /\ ReflowIdle
    /\ McpIdle
    /\ RelevanceIdle
    /\ FetchIdle
    /\ ChecksumIdle
    /\ SessionIdle

\* result = analyzer.analyze(scContent, scPane)
AnalyzeScored ==
    /\ pc = "scores"
    /\ LET hash == content_hash(scContent)
       IN /\ anResult' = analyze_scores(scContent,
                                  change_score(content_history, scPane, hash))
          /\ content_history' =
                IF tokenize(scContent) # <<>> /\ scPane # ""
                THEN Recorded(content_history, scPane, hash)
                ELSE content_history
    /\ pc' = "scored"
    /\ UNCHANGED <<scContent, scPane, recorded, planVars, sizeVars, calcVars,
                   execVars, blendVars, rfVars, mcpVars, relVars, fetchVars, ckVars, ssVars>>

NextScores == AnalyzeScored

SpecScores == InitScores /\ [][NextScores]_vars

\* ------------------------------------------------- _calculate_layout_checksum
\* ord(c) of the characters a pane descriptor is written with.
Ord(c) ==
    CASE c = "," -> 44 [] c = "x" -> 120
      [] c = "0" -> 48 [] c = "1" -> 49 [] c = "2" -> 50 [] c = "3" -> 51
      [] c = "4" -> 52 [] c = "5" -> 53 [] c = "6" -> 54 [] c = "7" -> 55
      [] c = "8" -> 56 [] c = "9" -> 57

\* str(n) of a non-negative integer: its decimal digits.
RECURSIVE Dec(_)
Dec(n) ==
    LET digit == <<"0", "1", "2", "3", "4", "5", "6", "7", "8", "9">>[(n % 10) + 1]
    IN IF n < 10 THEN <<digit>> ELSE Dec(n \div 10) \o <<digit>>

\* f"{p.width}x{p.height},{p.x},{p.y},{pane_num}", pane_num being the id
\* without its "%".
PaneStr(p) ==
    Dec(p.width) \o <<"x">> \o Dec(p.height) \o <<",">> \o Dec(p.x) \o <<",">>
        \o Dec(p.y) \o <<",">> \o Dec(p.id)

\* ",".join(pane_strs)
RECURSIVE JoinComma(_)
JoinComma(strs) ==
    IF strs = <<>> THEN <<>>
    ELSE IF Len(strs) = 1 THEN Head(strs)
    ELSE Head(strs) \o <<",">> \o JoinComma(Tail(strs))

\* A loop body that adds the character and forgets `csum &= 0xffff`.
csum_step_Unmasked(csum, c) ==
    ((csum \div 2) + ((csum % 2) * (2 ^ 15))) + Ord(c)

\* One turn of the loop: csum = (csum >> 1) + ((csum & 1) << 15);
\* csum += ord(c); csum &= 0xffff.
csum_step(csum, c) ==
    (((csum \div 2) + ((csum % 2) * (2 ^ 15))) + Ord(c)) % (2 ^ 16)

\* csum after the first k characters of layout_str.
RECURSIVE csum_after(_, _)
csum_after(layout_str, k) ==
    IF k = 0 THEN 0
    ELSE csum_step(csum_after(layout_str, k - 1), layout_str[k])

HexDigits ==
    <<"0", "1", "2", "3", "4", "5", "6", "7", "8", "9", "a", "b", "c", "d", "e", "f">>

\* format(n, "x"): the digits of n in base 16, lower case, no padding.
RECURSIVE Hex(_)
Hex(n) ==
    IF n < 16 THEN <<HexDigits[n + 1]>>
    ELSE Hex(n \div 16) \o <<HexDigits[(n % 16) + 1]>>

\* f"{csum:04x}": padded with zeros to four characters, never cut.
Hex04(n) ==
    LET digits == Hex(n)
    IN IF Len(digits) >= 4 THEN digits
       ELSE [k \in 1..(4 - Len(digits)) |-> "0"] \o digits

\* TmuxProvider._calculate_layout_checksum
calculate_layout_checksum(pane_strs) ==
    LET layout_str == JoinComma(pane_strs)
    IN Hex04(csum_after(layout_str, Len(layout_str)))

\* ------------------------------------------------------------ SpecChecksum
\* The pane rectangles the descriptors are written for: the main and side
\* widths of a 79-column window, two heights, the two columns and two rows.
CkRects ==
    {[id |-> i, x |-> x, y |-> y, width |-> w, height |-> h] :
        i \in PaneIds, x \in {0, 61}, y \in {0, 12}, w \in {61, 18}, h \in {4, 24}}

\* pane_strs of a layout of two panes.
PaneStrLists ==
    {<<PaneStr(pq[1]), PaneStr(pq[2])>> :
        pq \in {rs \in CkRects \X CkRects : rs[1].id # rs[2].id}}

InitChecksum ==
    /\ pc = "csum_start"
    /\ ckPaneStrs \in PaneStrLists
    /\ ckResult = <<>>
    /\ PlanIdle
    /\ SizesIdle
    /\ CalcIdle
    /\ AnalyzerIdle
    /\ ExecIdle
    /\ BlendIdle
    /\ ReflowIdle
    /\ McpIdle
    /\ RelevanceIdle
    /\ ScoresIdle
    /\ FetchIdle
    /\ SessionIdle

\* checksum = self._calculate_layout_checksum(pane_strs)
Checksum ==
    /\ pc = "csum_start"
    /\ ckResult' = calculate_layout_checksum(ckPaneStrs)
    /\ pc' = "csum_done"
    /\ UNCHANGED <<ckPaneStrs, planVars, sizeVars, calcVars, anVars, execVars, blendVars, rfVars, mcpVars, relVars, scVars, fetchVars, ssVars>>

NextChecksum == Checksum

SpecChecksum == InitChecksum /\ [][NextChecksum]_vars

\* -------------------------------------------------------- SessionOptimizer
\* A session pane is [id, window, importance, activity]: window is the
\* window id get_all_panes puts before the ":" of the title, the scores are
\* the analyzer's, in tenths.  A relevance matrix maps <<id, id>> to the
\* combined score in tenths.
RELEVANCE_THRESHOLD == 3
IMPORTANCE_THRESHOLD == 2
PARK_ACTIVITY == 2

\* rel = relevance_matrix.get((a, b));
\* rel and rel.combined_score >= self.relevance_threshold
Related(relevance_matrix, a, b) ==
    /\ <<a, b>> \in DOMAIN relevance_matrix
    /\ relevance_matrix[<<a, b>>] >= RELEVANCE_THRESHOLD

\* sorted(panes, key=importance, reverse=True): stable, greatest first.
RECURSIVE InsertByImportance(_, _)
InsertByImportance(s, p) ==
    IF s = <<>> THEN <<p>>
    ELSE IF p.importance > Head(s).importance THEN <<p>> \o s
    ELSE <<Head(s)>> \o InsertByImportance(Tail(s), p)

RECURSIVE SortedByImportanceFrom(_, _)
SortedByImportanceFrom(ps, acc) ==
    IF ps = <<>> THEN acc
    ELSE SortedByImportanceFrom(Tail(ps), InsertByImportance(acc, Head(ps)))

PaneIdsOf(ps) == [k \in 1..Len(ps) |-> ps[k].id]

\* The loop of _suggest_groups over sorted_panes: a pane not assigned yet
\* starts a group, is assigned, and takes every unassigned pane related to
\* it; the group is kept when it has more than one pane.
RECURSIVE SuggestFrom(_, _, _, _, _)
SuggestFrom(ps, relevance_matrix, sorted_panes, groups, assigned) ==
    IF sorted_panes = <<>> THEN [groups |-> groups, assigned |-> assigned]
    ELSE LET pane == Head(sorted_panes) IN
         IF pane.id \in assigned
         THEN SuggestFrom(ps, relevance_matrix, Tail(sorted_panes), groups, assigned)
         ELSE LET others == SelectSeq(ps, LAMBDA o :
                                /\ o.id \notin assigned \cup {pane.id}
                                /\ Related(relevance_matrix, pane.id, o.id))
                  group == [name |-> "group", number |-> Len(groups) + 1,
                            pane_ids |-> <<pane.id>> \o PaneIdsOf(others),
                            importance |-> pane.importance]
              IN SuggestFrom(ps, relevance_matrix, Tail(sorted_panes),
                             IF Len(group.pane_ids) > 1 THEN Append(groups, group)
                             ELSE groups,
                             assigned \cup SetOf(group.pane_ids))

\* SessionOptimizer._suggest_groups (the topic of a group is left out).
suggest_groups(ps, relevance_matrix) ==
    LET done == SuggestFrom(ps, relevance_matrix, SortedByImportanceFrom(ps, <<>>),
                            <<>>, {})
        remaining == PaneIdsOf(SelectSeq(ps, LAMBDA p : p.id \notin done.assigned))
    IN IF remaining # <<>>
       THEN Append(done.groups, [name |-> "misc", number |-> 0,
                                 pane_ids |-> remaining, importance |-> 0])
       ELSE done.groups

\* current_windows.get(pane_id, "unknown"), "unknown" being 0.
WindowOf(ps, pane_id) ==
    IF \E k \in 1..Len(ps) : ps[k].id = pane_id
    THEN ps[CHOOSE k \in 1..Len(ps) : ps[k].id = pane_id].window
    ELSE 0

\* max(window_counts, key=window_counts.get): the window holding most panes
\* of the group, the one met first among equals.
TargetWindow(ps, pane_ids) ==
    LET win(i) == WindowOf(ps, pane_ids[i])
        count(i) == Cardinality({j \in 1..Len(pane_ids) : win(j) = win(i)})
    IN win(CHOOSE i \in 1..Len(pane_ids) :
              /\ \A j \in 1..Len(pane_ids) : count(j) <= count(i)
              /\ \A j \in 1..(i - 1) : count(j) < count(i))

MoveOp(pane_id, to) == [op |-> "move_pane", pane |-> pane_id, to |-> to]

\* The moves of one group: its panes outside the target window.
GroupMoves(ps, group) ==
    IF Len(group.pane_ids) < 2 THEN <<>>
    ELSE LET target_window == TargetWindow(ps, group.pane_ids)
             movers == SelectSeq(group.pane_ids,
                                 LAMBDA id : WindowOf(ps, id) # target_window)
         IN [k \in 1..Len(movers) |-> MoveOp(movers[k], target_window)]

\* SessionOptimizer.calculate_moves
RECURSIVE calculate_moves(_, _)
calculate_moves(ps, groups) ==
    IF groups = <<>> THEN <<>>
    ELSE GroupMoves(ps, Head(groups)) \o calculate_moves(ps, Tail(groups))

\* consolidate_related: the reference pane and the panes related to it.
RelatedTo(ps, relevance_matrix, pane_id) ==
    <<pane_id>> \o PaneIdsOf(SelectSeq(ps, LAMBDA p :
                      p.id # pane_id /\ Related(relevance_matrix, pane_id, p.id)))

\* consolidate_related: the related panes that stand in another window.
ConsolidateMoves(ps, related, target_window) ==
    LET movers == SelectSeq(Tail(related),
                            LAMBDA id : WindowOf(ps, id) # target_window)
    IN [k \in 1..Len(movers) |-> MoveOp(movers[k], target_window)]

\* park_inactive: the panes of low importance and low activity.
ToPark(ps) ==
    PaneIdsOf(SelectSeq(ps, LAMBDA p :
        p.importance < IMPORTANCE_THRESHOLD /\ p.activity < PARK_ACTIVITY))

\* The window break_pane makes: one more than the windows of the session.
PARK_WINDOW == 3

\* park_inactive's calls when it applies: break the first pane out, then move
\* the others to the new window.
ParkOps(to_park) ==
    <<[op |-> "break_pane", pane |-> to_park[1], to |-> PARK_WINDOW]>>
        \o [k \in 1..(Len(to_park) - 1) |-> MoveOp(to_park[k + 1], PARK_WINDOW)]

\* A call that ignores its dry_run argument.
DryRun_Ignored(cfg) == FALSE

\* The dry_run argument of the call.
DryRun(cfg) == cfg.dry_run

ReadCall(op) == [op |-> op, pane |-> 0, to |-> 0]

\* The adapter's panes after join-pane -s pane -t window, or break-pane.
Moved(ps, pane_id, window) ==
    [k \in 1..Len(ps) |-> IF ps[k].id = pane_id THEN [ps[k] EXCEPT !.window = window]
                          ELSE ps[k]]

\* ------------------------------------------------------------- SpecSession
SsEntries == {"optimize", "consolidate_related", "park_inactive"}

\* Low importance and activity (a pane to park), or middling, or high.
SsProfiles == {<<1, 0>>, <<5, 5>>}

\* n panes over two windows, pane 1 in window 1.
SessionPanes(n, window, profile) ==
    [k \in 1..n |-> [id |-> k, window |-> window[k],
                     importance |-> profile[k][1], activity |-> profile[k][2]]]

\* build_relevance_matrix: one result per pair, stored under both key orders.
SsMatrices(n) ==
    LET pairs == {pr \in (1..n) \X (1..n) : pr[1] < pr[2]}
    IN {[key \in {pr \in (1..n) \X (1..n) : pr[1] # pr[2]} |->
            IF key[1] < key[2] THEN m[key] ELSE m[<<key[2], key[1]>>]] :
        m \in [pairs -> {0, 8}]}

InitSession ==
    /\ pc = "ss_start"
    /\ \E n \in 0..NumPanes, entry \in SsEntries, dry_run \in BOOLEAN :
          \E window \in {w \in [1..n -> {1, 2}] : n = 0 \/ w[1] = 1},
             profile \in [1..n -> SsProfiles], matrix \in SsMatrices(n),
             available \in IF entry = "optimize" THEN BOOLEAN ELSE {TRUE},
             pane_id \in IF entry = "consolidate_related" THEN 1..NumPanes ELSE {0} :
              /\ ssPanes = SessionPanes(n, window, profile)
              /\ ssCfg = [entry |-> entry, dry_run |-> dry_run, available |-> available,
                          pane_id |-> pane_id, relevance_matrix |-> matrix,
                          panes |-> SessionPanes(n, window, profile)]
    /\ ssLog = <<>>
    /\ ssPending = <<>>
    /\ ssResult = <<>>
    /\ PlanIdle
    /\ SizesIdle
    /\ CalcIdle
    /\ AnalyzerIdle
    /\ ExecIdle
    /\ BlendIdle
    /\ ReflowIdle
    /\ McpIdle
    /\ RelevanceIdle
    /\ ScoresIdle
    /\ FetchIdle
    /\ ChecksumIdle

\* optimize up to its `if not dry_run and moves`: analyze_session (with its
\* two early returns), the groups, calculate_moves, the result.
SsOptimize ==
    /\ pc = "ss_start"
    /\ ssCfg.entry = "optimize"
    /\ IF ~ssCfg.available
       THEN /\ ssLog' = <<ReadCall("is_available")>>
            /\ ssResult' = [error |-> "Provider not available"]
            /\ pc' = "ss_done"
            /\ UNCHANGED ssPending
       ELSE IF ssPanes = <<>>
       THEN /\ ssLog' = <<ReadCall("is_available"), ReadCall("get_all_panes")>>
            /\ ssResult' = [error |-> "No panes found"]
            /\ pc' = "ss_done"
            /\ UNCHANGED ssPending
       ELSE LET groups == suggest_groups(ssPanes, ssCfg.relevance_matrix)
                moves == calculate_moves(ssPanes, groups)
            IN /\ ssLog' = <<ReadCall("is_available"), ReadCall("get_all_panes"),
                             ReadCall("get_all_panes")>>
               /\ ssResult' = [status |-> IF ssCfg.dry_run THEN "calculated" ELSE "applied",
                               suggested_groups |-> groups, moves |-> moves]
               /\ ssPending' = moves
               /\ pc' = "ss_apply"
    /\ UNCHANGED <<ssCfg, ssPanes, planVars, sizeVars, calcVars, anVars, execVars, blendVars, rfVars, mcpVars, relVars, scVars, fetchVars, ckVars>>

\* consolidate_related up to its `if not dry_run`.
SsConsolidate ==
    /\ pc = "ss_start"
    /\ ssCfg.entry = "consolidate_related"
    /\ ssLog' = <<ReadCall("get_all_panes")>>
    /\ LET related == RelatedTo(ssPanes, ssCfg.relevance_matrix, ssCfg.pane_id)
           target_window == WindowOf(ssPanes, ssCfg.pane_id)
       IN IF Len(related) <= 1
          THEN /\ ssResult' = [status |-> "no_related_panes"]
               /\ pc' = "ss_done"
               /\ UNCHANGED ssPending
          ELSE IF target_window = 0
          THEN /\ ssResult' = [error |-> "Could not determine target window"]
               /\ pc' = "ss_done"
               /\ UNCHANGED ssPending
          ELSE LET moves == ConsolidateMoves(ssPanes, related, target_window)
               IN /\ ssResult' = [status |-> IF ssCfg.dry_run THEN "calculated"
                                             ELSE "applied",
                                  suggested_groups |-> <<>>, moves |-> moves]
                  /\ ssPending' = moves
                  /\ pc' = "ss_apply"
    /\ UNCHANGED <<ssCfg, ssPanes, planVars, sizeVars, calcVars, anVars, execVars, blendVars, rfVars, mcpVars, relVars, scVars, fetchVars, ckVars>>

\* park_inactive up to its `if not dry_run and to_park`.
SsPark ==
    /\ pc = "ss_start"
    /\ ssCfg.entry = "park_inactive"
    /\ ssLog' = <<ReadCall("get_all_panes")>>
    /\ LET to_park == ToPark(ssPanes)
       IN IF to_park = <<>>
          THEN /\ ssResult' = [status |-> "nothing_to_park"]
               /\ pc' = "ss_done"
               /\ UNCHANGED ssPending
          ELSE /\ ssResult' = [status |-> IF ssCfg.dry_run THEN "calculated"
                                          ELSE "applied",
                               suggested_groups |-> <<>>, moves |-> ParkOps(to_park)]
               /\ ssPending' = ParkOps(to_park)
               /\ pc' = "ss_apply"
    /\ UNCHANGED <<ssCfg, ssPanes, planVars, sizeVars, calcVars, anVars, execVars, blendVars, rfVars, mcpVars, relVars, scVars, fetchVars, ckVars>>

\* One call of the apply loop: self.provider.move_pane(...) or break_pane(...),
\* which succeeds or fails; after a break_pane that returned None nothing
\* else is called.
SsMutate ==
    /\ pc = "ss_apply"
    /\ ~DryRun(ssCfg)
    /\ ssPending # <<>>
    /\ LET call == Head(ssPending) IN
       /\ ssLog' = Append(ssLog, call)
       /\ \E ok \in BOOLEAN :
             /\ ssPanes' = IF ok THEN Moved(ssPanes, call.pane, call.to) ELSE ssPanes
             /\ ssPending' = IF call.op = "break_pane" /\ ~ok THEN <<>>
                             ELSE Tail(ssPending)
    /\ UNCHANGED <<pc, ssCfg, ssResult, planVars, sizeVars, calcVars, anVars, execVars, blendVars, rfVars, mcpVars, relVars, scVars, fetchVars, ckVars>>

\* return result
SsReturn ==
    /\ pc = "ss_apply"
    /\ DryRun(ssCfg) \/ ssPending = <<>>
    /\ pc' = "ss_done"
    /\ UNCHANGED <<ssVars, planVars, sizeVars, calcVars, anVars, execVars, blendVars, rfVars, mcpVars, relVars, scVars, fetchVars, ckVars>>

NextSession == SsOptimize \/ SsConsolidate \/ SsPark \/ SsMutate \/ SsReturn

SpecSession == InitSession /\ [][NextSession]_vars

\* ------------------------------------------------------------- SpecDryRun
\* Every entry point that takes dry_run: reflow and cmd_reflow, and the
\* three of SessionOptimizer.
InitDryRun == InitReflow \/ InitSession

NextDryRun == NextReflow \/ NextSession

SpecDryRun == InitDryRun /\ [][NextDryRun]_vars

\* ---------------------------------------------------------------- claims
\* The order left by exchanging, for each swap step in turn, the places of the
\* two panes it names.
RECURSIVE ApplySwaps(_, _)
ApplySwaps(order, swaps) ==
    IF swaps = <<>> THEN order
    ELSE LET ia == Index(order, Head(swaps).pane_id)
             ib == Index(order, Head(swaps).target_id)
         IN ApplySwaps(IF ia = 0 \/ ib = 0 THEN order
                       ELSE [order EXCEPT ![ia] = order[ib], ![ib] = order[ia]],
                       Tail(swaps))

JustPlanned == pc = "swaps" /\ swapIdx = 1

\* C1: when the snapshot and the target hold the same unique pane ids, the
\* plan's swaps, applied in order to the current reading order, give the
\* target reading order; and so does the adapter once it has run them.
C1_SwapsReachTarget ==
    IdsOf(panes) = IdsOf(layout) =>
        /\ JustPlanned =>
              ApplySwaps(ReadingOrder(panes), SwapsOf(plan)) = ReadingOrder(layout)
        /\ pc = "swapped" => ReadingOrder(panes) = ReadingOrder(layout)

C1_Witness ==
    /\ pc = "swapped"
    /\ IdsOf(panes) = IdsOf(layout)
    /\ Len(SwapsOf(plan)) >= 2
    /\ ReadingOrder(panes) = ReadingOrder(layout)

\* C2: a plan made when the current reading order equals the target reading
\* order has no swap step, and a plan made after the swaps of the previous
\* plan were applied has none either.
C2_PlanIdempotent ==
    /\ (JustPlanned /\ ReadingOrder(panes) = ReadingOrder(layout)) =>
          SwapsOf(plan) = <<>>
    /\ pc = "replanned" => SwapsOf(plan) = <<>>

C2_Witness ==
    /\ pc = "replanned"
    /\ Len(panes) = NumPanes
    /\ ReadingOrder(panes) = ReadingOrder(layout)
    /\ SwapsOf(plan) = <<>>
    /\ Len(plan) = NumPanes

\* C3: the sizes returned for one pane or more sum exactly to the total size,
\* the even split of a total too small for the minimums included.
C3_SizesSumToTotal ==
    (pc = "sized" /\ Len(argScores) >= 1) => SumSeq(retSizes) = argTotal

\* C4: when n * min <= total for n >= 1 panes, every returned size is at least
\* the minimum, whatever the normalized scores (all zero included).
C4_SizesAtLeastMin ==
    (pc = "sized" /\ Len(argScores) >= 1 /\ Len(argScores) * argMin <= argTotal) =>
        \A k \in 1..Len(retSizes) : retSizes[k] >= argMin

C4_Witness ==
    /\ pc = "sized"
    /\ Len(argScores) = NumPanes
    /\ NumPanes * argMin < argTotal
    /\ argMin > 0
    /\ \A k \in 1..Len(argScores) : argScores[k].num = 0
    /\ retSizes[1] > argMin
    /\ \A k \in 2..Len(retSizes) : retSizes[k] = argMin

\* C5: the layout calculate returns holds exactly one PaneLayout per input
\* pane id and none with another id.
C5_OneLayoutPerPane ==
    pc = "calculated" =>
        /\ \A k \in 1..Len(calcArgs.panes) :
              Cardinality({i \in 1..Len(calcResult) :
                              calcResult[i].id = calcArgs.panes[k].id}) = 1
        /\ IdsOf(calcResult) \subseteq IdsOf(calcArgs.panes)

C5_Witness ==
    /\ pc = "calculated"
    /\ Len(calcArgs.panes) = NumPanes
    /\ calcArgs.layout_type = "auto"
    /\ calcArgs.strategy = "related"
    /\ DOMAIN calcArgs.relevance_matrix # {}
    /\ Len(calcResult) = NumPanes
    /\ IdsOf(calcResult) = 1..NumPanes

\* The window cannot hold the panes at their minimums, side by side or stacked.
TooSmall(a) ==
    \/ Len(a.panes) * a.min_width > a.window_width
    \/ Len(a.panes) * a.min_height > a.window_height

\* C6: unless the window is too small for the minimums of all panes, every
\* pane of the returned layout is at least min_width wide and min_height
\* high, under the tiled layout too.
C6_PanesAtLeastMinimum ==
    (pc = "calculated" /\ ~TooSmall(calcArgs)) =>
        \A i \in 1..Len(calcResult) :
            /\ calcResult[i].width >= calcArgs.min_width
            /\ calcResult[i].height >= calcArgs.min_height

\* The call of execute_plan is over, by return or by exception.
ExecOver == pc \in {"exec_done", "exec_raised"}

AnyStepFailed == \E i \in 1..Len(calls) : calls[i].outcome # "ok"

Attempted(step) == \E i \in 1..Len(calls) : calls[i].step = step

\* The pane of a resize step has the step's size in the adapter's window.
AlreadySized(step) ==
    \E k \in 1..Len(panes) :
        /\ panes[k].id = step.pane_id
        /\ panes[k].width = step.width
        /\ panes[k].height = step.height

\* C7: execution is best-effort: once execute_plan is over it has returned
\* false if the command of some swap, resize or join step did not succeed and
\* true if all did; and when some step failed, every swap step, every join
\* step and every resize step whose pane still lacks its target size was
\* handed to the adapter all the same.
C7_BestEffort ==
    ExecOver =>
        /\ AnyStepFailed => returned = "false"
        /\ returned = "true" => ~AnyStepFailed
        /\ AnyStepFailed =>
              \A k \in 1..Len(plan) :
                  \/ plan[k].operation \notin {"swap", "resize", "join"}
                  \/ Attempted(plan[k])
                  \/ plan[k].operation = "resize" /\ AlreadySized(plan[k])

\* C8: the history kept for a pane id has at most 10 entries, and they are
\* the hashes recorded last for that pane, in the order they were recorded; a
\* pane for which nothing was recorded has no history.
C8_HistoryIsLastTen ==
    pc = "analyzer" =>
        \A p \in TrackedIds :
            LET r == recorded[p]
                n == Len(r)
            IN IF n = 0 THEN p \notin DOMAIN content_history
               ELSE /\ p \in DOMAIN content_history
                    /\ Len(content_history[p]) <= 10
                    /\ content_history[p] =
                          SubSeq(r, IF n > 10 THEN n - 9 ELSE 1, n)

C8_Witness ==
    /\ pc = "analyzer"
    /\ Len(recorded["%1"]) = 11
    /\ Len(content_history["%1"]) = 10
    /\ recorded["%1"][1] # recorded["%1"][2]
    /\ content_history["%1"][1] = recorded["%1"][2]
    /\ content_history["%1"][10] = recorded["%1"][11]

\* C9: after an analyze call that supplied a pane id, whatever the content
\* (empty and whitespace-only included), the last entry of that pane's history
\* is the content_hash the call returned.
C9_EveryAnalyzeRecords ==
    (pc = "analyzer" /\ anResult # <<>> /\ anResult.pane_id # "") =>
        /\ anResult.pane_id \in DOMAIN content_history
        /\ content_history[anResult.pane_id][Len(content_history[anResult.pane_id])]
              = anResult.content_hash

C11_UnavailableFailsFast ==
    (pc \in {"rf_enumerate", "rf_analyze", "rf_layout", "rf_apply", "rf_done"}
        /\ ~rfCfg.available) =>
        /\ pc = "rf_done"
        /\ "error" \in DOMAIN rfResult
        /\ rfLog = <<"is_available">>
        /\ layout = <<>>
        /\ plan = <<>>

C11_Witness ==
    /\ pc = "rf_done"
    /\ ~rfCfg.available
    /\ rfCfg.entry = "reflow"
    /\ Len(panes) = NumPanes
    /\ rfResult = [error |-> "Not in tmux session"]
    /\ rfLog = <<"is_available">>

\* The last request was a calculate-layout request, and it was malformed: no
\* "panes", a pane record without id or content, or an unknown strategy or
\* layout type.
MalformedCalculate ==
    /\ mcpRequest # <<>>
    /\ mcpRequest.tool = "panefit_calculate_layout"
    /\ \/ ~mcpRequest.has_panes
       \/ \E k \in 1..Len(mcpRequest.panes) :
             ~({"id", "content"} \subseteq DOMAIN mcpRequest.panes[k])
       \/ mcpRequest.strategy \notin
             {"importance", "entropy", "activity", "balanced", "related"}
       \/ mcpRequest.layout_type \notin {"auto", "horizontal", "vertical", "tiled"}

\* C12: a malformed calculate-layout request is answered with an error value,
\* and the analyzer's hash history after it is the history before it.
C12_MalformedNoPartialWork ==
    MalformedCalculate =>
        /\ "error" \in DOMAIN mcpResult
        /\ content_history = mcpBefore

\* The last request supplied zero panes.
ZeroPanesRequest ==
    /\ mcpRequest # <<>>
    /\ mcpRequest.has_panes
    /\ mcpRequest.panes = <<>>
    /\ mcpRequest.tool = "panefit_calculate_layout" =>
          /\ mcpRequest.strategy \in LayoutStrategies
          /\ mcpRequest.layout_type \in LayoutTypes

\* C13: a request (or a session analysis) with zero panes ends in an explicit
\* "no panes" error value, never in an ordinary result with an empty pane
\* list.
C13_ZeroPanesExplicit ==
    /\ ZeroPanesRequest => "error" \in DOMAIN mcpResult
    /\ (pc = "rf_done" /\ rfCfg.entry = "analyze_session" /\ rfCfg.available
            /\ Len(panes) = 0) => "error" \in DOMAIN rfResult

\* Two fractions <<numerator, denominator>> of the same value.
SameValue(p, q) == p[1] * q[2] = q[1] * p[2]

\* C14: relevance(A, B) and relevance(B, A) have the same shared-keyword set
\* and the same jaccard_similarity, topic_similarity and combined_score.
C14_RelevanceSymmetric ==
    pc = "related" =>
        /\ relAB.shared_keywords = relBA.shared_keywords
        /\ SameValue(relAB.jaccard_similarity, relBA.jaccard_similarity)
        /\ SameValue(relAB.topic_similarity, relBA.topic_similarity)
        /\ SameValue(relAB.combined_score, relBA.combined_score)

C14_Witness ==
    /\ pc = "related"
    /\ relA # relB
    /\ Cardinality(relAB.shared_keywords) = 1
    /\ relAB.jaccard_similarity[2] > 20
    /\ relAB.topic_similarity = <<1, 2>>
    /\ relAB.combined_score[1] > 0
    /\ relBA.shared_keywords = relAB.shared_keywords

\* A score between 0.0 and 1.0, in thousandths.
UnitScore(x) == 0 <= x /\ x <= 1000

\* C15: every score field of the AnalysisResult analyze returns lies in
\* [0,1], for every text and every history.
C15_ScoresInUnitInterval ==
    pc = "scored" =>
        /\ UnitScore(anResult.surprisal_score)
        /\ UnitScore(anResult.recent_activity_score)
        /\ UnitScore(anResult.importance_score)
        /\ UnitScore(anResult.interestingness_score)

C15_Witness ==
    /\ pc = "scored"
    /\ anResult.recent_activity_score = 1000
    /\ anResult.surprisal_score > 0
    /\ anResult.importance_score > 0
    /\ anResult.interestingness_score > 0
    /\ scPane \in DOMAIN content_history
    /\ Len(content_history[scPane]) = 2

\* The positions in the command log of the commands of one operation.
CallsOf(op) == {i \in 1..Len(calls) : calls[i].step.operation = op}

\* The steps of the swap commands, in the order of the log.
SwapsCalled == [i \in 1..Cardinality(CallsOf("swap")) |->
                   calls[CHOOSE k \in CallsOf("swap") :
                            Cardinality({m \in CallsOf("swap") : m < k}) = i - 1].step]

\* C16: execute_plan hands the plan's swap steps to the adapter one at a
\* time in their recorded order, then fetches the panes once, and only then
\* resizes: every swap command is before the fetch, every resize command
\* after it, and at the fetch all swap steps have been handed over.
C16_SwapsThenFetchThenResizes ==
    /\ Len(SwapsCalled) <= Len(SwapsOf(plan))
    /\ SwapsCalled = SubSeq(SwapsOf(plan), 1, Len(SwapsCalled))
    /\ Len(fetchedAt) <= 1
    /\ CallsOf("resize") # {} => Len(fetchedAt) = 1
    /\ Len(fetchedAt) = 1 =>
          /\ SwapsCalled = SwapsOf(plan)
          /\ \A i \in CallsOf("swap") : i <= fetchedAt[1]
          /\ \A i \in CallsOf("resize") : i > fetchedAt[1]
    /\ \A i \in CallsOf("swap"), j \in CallsOf("resize") : i < j

C16_Witness ==
    /\ pc = "exec_done"
    /\ Len(SwapsOf(plan)) = 2
    /\ SwapsOf(plan)[1] # SwapsOf(plan)[2]
    /\ Len(fetchedAt) = 1
    /\ fetchedAt[1] = 2
    /\ Cardinality(CallsOf("resize")) = NumPanes

\* The y the target layout gives a pane.
YOf(pane_id) == layout[CHOOSE k \in 1..Len(layout) : layout[k].id = pane_id].y

\* C17: the resize commands reach the adapter bottom-most first: no pane is
\* resized after a pane whose target y is strictly smaller.
C17_ResizesBottomFirst ==
    \A i \in CallsOf("resize"), j \in CallsOf("resize") :
        i < j => YOf(calls[i].step.pane_id) >= YOf(calls[j].step.pane_id)

C17_Witness ==
    /\ pc = "exec_done"
    /\ Cardinality(CallsOf("resize")) = NumPanes
    /\ \E i \in CallsOf("resize"), j \in CallsOf("resize") :
          /\ i < j
          /\ YOf(calls[i].step.pane_id) > YOf(calls[j].step.pane_id)
          /\ \E a \in 1..Len(plan), b \in 1..Len(plan) :
                a > b /\ plan[a] = calls[i].step /\ plan[b] = calls[j].step

\* The resize loop of execute_plan is over.
ResizesOver == pc \in {"exec_joins", "exec_done"}

\* The command log has this resize step with a width (height) exactly when
\* the flag says so.
ResizeCalledWith(step, with_width, with_height) ==
    \E i \in CallsOf("resize") :
        /\ calls[i].step = step
        /\ (calls[i].width # None) = with_width
        /\ (calls[i].height # None) = with_height

\* C18: a resize step passes a width to the adapter exactly when its target
\* width differs from the pane's width in the snapshot fetched after the
\* swaps, and a height likewise; a pane with both as they are gets no
\* resize command and a pane with a differing dimension always gets one.
C18_ResizeIffDiffers ==
    ResizesOver =>
        \A k \in 1..Len(plan) :
            (plan[k].operation = "resize" /\ HasPane(fetched, plan[k].pane_id)) =>
                LET current == PaneOf(fetched, plan[k].pane_id)
                    wider == plan[k].width # current.width
                    higher == plan[k].height # current.height
                IN IF wider \/ higher
                   THEN ResizeCalledWith(plan[k], wider, higher)
                   ELSE \A i \in CallsOf("resize") : calls[i].step # plan[k]

\* The positions in the plan of the steps of one operation.
StepsOf(op) == {k \in 1..Len(plan) : plan[k].operation = op}

\* C19: whatever the snapshot, an empty one too, the plan of plan_layout has
\* exactly one resize step for every pane of the target, with that pane's
\* target width and height, and every resize step is after every swap step.
C19_OneResizePerTargetPane ==
    JustPlanned =>
        /\ \A t \in 1..Len(layout) :
              Cardinality({k \in StepsOf("resize") :
                              /\ plan[k].pane_id = layout[t].id
                              /\ plan[k].width = layout[t].width
                              /\ plan[k].height = layout[t].height}) = 1
        /\ Cardinality(StepsOf("resize")) = Len(layout)
        /\ \A i \in StepsOf("swap"), j \in StepsOf("resize") : i < j

\* C20: once execute_plan has returned, every join step and every break
\* step of the plan has been handed to the adapter, after every resize
\* command.
C20_JoinsAndBreaksExecuted ==
    pc = "exec_done" =>
        \A k \in StepsOf("join") \cup StepsOf("break") :
            \E i \in 1..Len(calls) :
                /\ calls[i].step = plan[k]
                /\ \A j \in CallsOf("resize") : j < i

\* plan_layout's loop on the snapshot and the target, stopped before target
\* position i: its working order and the steps recorded so far.
LoopBefore(i) ==
    PlanSwapsFrom(current_order(panes), SubSeq(target_order(layout), 1, i - 1), 1, <<>>)

\* The loop's state before every position of the target order tgt, and after
\* the last, when it starts from the order cur.
LoopStates(cur, tgt) ==
    [i \in 1..(Len(tgt) + 1) |-> PlanSwapsFrom(cur, SubSeq(tgt, 1, i - 1), 1, <<>>)]

\* The target positions the loop visits.
LoopPositions ==
    {i \in 1..Len(target_order(layout)) : i <= Len(current_order(panes))}

\* C21: at a target position whose pane is not in the snapshot plan_layout
\* records no step and leaves the working order as it is; at a position where
\* it records a swap, the step names two panes of the snapshot, and the working
\* order changes by exactly the exchange of these two panes' places.
C21_AbsentSkippedSwapsExist ==
    JustPlanned =>
        \A cur \in {current_order(panes)}, tgt \in {target_order(layout)} :
        \A loop \in {LoopStates(cur, tgt)} :
        \A i \in {k \in 1..Len(tgt) : k <= Len(cur)} :
            LET before == loop[i]
                after == loop[i + 1]
            IN /\ tgt[i] \notin IdsOf(panes) => after = before
               /\ after.steps # before.steps =>
                     LET step == after.steps[Len(after.steps)]
                         ia == Index(before.working_order, step.pane_id)
                         ib == Index(before.working_order, step.target_id)
                     IN /\ Len(after.steps) = Len(before.steps) + 1
                        /\ step.pane_id \in IdsOf(panes)
                        /\ step.target_id \in IdsOf(panes)
                        /\ ia # 0 /\ ib # 0 /\ ia # ib
                        /\ after.working_order =
                              [before.working_order EXCEPT
                                  ![ia] = step.target_id, ![ib] = step.pane_id]
               /\ after.steps = before.steps =>
                     after.working_order = before.working_order

C21_Witness ==
    /\ JustPlanned
    /\ \E i \in LoopPositions, k \in LoopPositions :
          /\ i < k
          /\ target_order(layout)[i] \notin IdsOf(panes)
          /\ LoopBefore(k + 1).steps # LoopBefore(k).steps
    /\ SwapsOf(plan) = LoopBefore(Len(target_order(layout)) + 1).steps
    /\ SwapsOf(plan) # <<>>

\* The scores calculate works on.
CalcScores == calculate_scores(calcArgs.panes, calcArgs.analyses, calcArgs.strategy)

\* calculate took the branch that calls _layout_related.
RelatedBranch ==
    /\ calcArgs.layout_type = "auto"
    /\ calcArgs.strategy = "related"
    /\ DOMAIN calcArgs.relevance_matrix # {}

\* The panes of the returned layout that stand in the side column.
SidePanes == {i \in 1..Len(calcResult) : calcResult[i].x > 0}

\* C22: in the related layout of three or more panes the main pane (the one
\* at x = 0) is a top scorer, and the other panes are stacked from the top in
\* descending order of their relevance to the main pane, whatever their own
\* combined scores are.
C22_SideOrderedByRelevance ==
    (pc = "calculated" /\ RelatedBranch /\ Len(calcArgs.panes) >= 3) =>
        LET main == CHOOSE i \in 1..Len(calcResult) : calcResult[i].x = 0
            rel(i) == RelScore(calcArgs.relevance_matrix,
                               calcResult[main].id, calcResult[i].id)
        IN /\ \A k \in 1..Len(CalcScores) :
                 ~CombinedGreater(CalcScores[k],
                     CalcScores[CHOOSE m \in 1..Len(CalcScores) :
                                   CalcScores[m].id = calcResult[main].id])
           /\ \A i \in SidePanes, j \in SidePanes :
                 calcResult[i].y < calcResult[j].y => rel(i) >= rel(j)

\* C23: under strategy related and without a relevance matrix calculate
\* returns the geometry it returns for the same inputs under strategy balanced.
C23_RelatedWithoutMatrixIsBalanced ==
    (pc = "calculated" /\ calcArgs.strategy = "related"
        /\ DOMAIN calcArgs.relevance_matrix = {}) =>
        calcResult = calculate([calcArgs EXCEPT !.strategy = "balanced"])

\* C24: with layout type auto, two panes are placed by _layout_horizontal when
\* window_width / window_height > 1.5 and by _layout_vertical otherwise, under
\* every strategy and with or without a relevance matrix; three or more panes
\* are placed tiled, or related under strategy related with a matrix.
C24_AutoByAspectAndCount ==
    (pc = "calculated" /\ calcArgs.layout_type = "auto") =>
        LET a == calcArgs
            W == a.window_width
            H == a.window_height
        IN /\ Len(a.panes) = 2 =>
                 calcResult = IF 2 * W > 3 * H
                              THEN layout_horizontal(CalcScores, W, H, a.min_width)
                              ELSE layout_vertical(CalcScores, W, H, a.min_height)
           /\ Len(a.panes) >= 3 =>
                 calcResult = IF RelatedBranch
                              THEN layout_related(CalcScores, a.relevance_matrix, W, H,
                                                  a.min_width, a.min_height)
                              ELSE layout_tiled(CalcScores, W, H, a.min_width, a.min_height)

\* Two rectangles share a cell.
Overlap(p, q) ==
    /\ p.x < q.x + q.width
    /\ q.x < p.x + p.width
    /\ p.y < q.y + q.height
    /\ q.y < p.y + p.height

InsideWindow(p, W, H) ==
    /\ p.x >= 0
    /\ p.y >= 0
    /\ p.x + p.width <= W
    /\ p.y + p.height <= H

\* C27: in every layout calculate returns, no two pane rectangles overlap and
\* every rectangle lies inside the window.
C27_DisjointInsideWindow ==
    pc = "calculated" =>
        /\ \A i \in 1..Len(calcResult), j \in 1..Len(calcResult) :
              i # j => ~Overlap(calcResult[i], calcResult[j])
        /\ \A i \in 1..Len(calcResult) :
              InsideWindow(calcResult[i], calcArgs.window_width, calcArgs.window_height)

C27_Witness ==
    /\ pc = "calculated"
    /\ RelatedBranch
    /\ Len(calcResult) = NumPanes
    /\ \A i \in 1..Len(calcResult) : calcResult[i].width > 0 /\ calcResult[i].height > 0
    /\ \E i \in 1..Len(calcResult) :
          /\ calcResult[i].x + calcResult[i].width = calcArgs.window_width
          /\ calcResult[i].y + calcResult[i].height = calcArgs.window_height
          /\ calcResult[i].y > 0

\* The hashes recorded for the pane of the last analyze call before that call:
\* a call that found words and had a pane id appended its hash to them.
RecordedBefore ==
    LET r == recorded[anResult.pane_id]
    IN IF anResult.word_count > 0 THEN SubSeq(r, 1, Len(r) - 1) ELSE r

\* C25: the change component of the last analyze call is 0.3 exactly when the
\* call had a pane id, a hash was recorded for that pane before the call, and
\* the hash of the analysed content differs from the hash recorded last; it is
\* 0 otherwise.
C25_ChangeIffHashDiffers ==
    (pc = "analyzer" /\ anResult # <<>>) =>
        LET differs ==
                /\ anResult.pane_id # ""
                /\ RecordedBefore # <<>>
                /\ anResult.content_hash # RecordedBefore[Len(RecordedBefore)]
        IN anResult.change_score = IF differs THEN 30 ELSE 0

\* a | b on non-negative integers.
RECURSIVE BitOr(_, _)
BitOr(a, b) ==
    IF a = 0 THEN b
    ELSE IF b = 0 THEN a
    ELSE (IF a % 2 = 1 \/ b % 2 = 1 THEN 1 ELSE 0) + 2 * BitOr(a \div 2, b \div 2)

\* The reference accumulator after the first k characters:
\* csum = ((csum >> 1) | ((csum & 1) << 15)); csum = (csum + charCode) & 0xFFFF.
RECURSIVE ReferenceAfter(_, _)
ReferenceAfter(str, k) ==
    IF k = 0 THEN 0
    ELSE LET csum == ReferenceAfter(str, k - 1)
         IN (BitOr(csum \div 2, (csum % 2) * (2 ^ 15)) + Ord(str[k])) % (2 ^ 16)

CkLayoutStr == JoinComma(ckPaneStrs)

\* C26: the checksum _calculate_layout_checksum returns is the reference
\* rotate-right-then-add accumulator of the whole string, written as four
\* lower-case hex digits; after every character the code's accumulator equals
\* the reference one and lies in 0..65535; computing it again for the same
\* string gives the same value.
C26_ChecksumIsReference ==
    pc = "csum_done" =>
        /\ \A k \in 0..Len(CkLayoutStr) :
              /\ csum_after(CkLayoutStr, k) = ReferenceAfter(CkLayoutStr, k)
              /\ csum_after(CkLayoutStr, k) \in 0..65535
        /\ ckResult = Hex04(ReferenceAfter(CkLayoutStr, Len(CkLayoutStr)))
        /\ Len(ckResult) = 4
        /\ \A i \in 1..Len(ckResult) : \E d \in 1..16 : ckResult[i] = HexDigits[d]
        /\ ckResult = calculate_layout_checksum(ckPaneStrs)

\* A string whose accumulator had its low bit rotated into bit 15, overflowed
\* 16 bits on the add, and ends below 0x1000 (a padded value).
C26_Witness ==
    /\ pc = "csum_done"
    /\ ckResult[1] = "0"
    /\ \E k \in 1..Len(CkLayoutStr) :
          /\ csum_after(CkLayoutStr, k - 1) % 2 = 1
          /\ csum_after(CkLayoutStr, k) >= 2 ^ 15
    /\ \E k \in 1..Len(CkLayoutStr) :
          csum_step_Unmasked(csum_after(CkLayoutStr, k - 1), CkLayoutStr[k]) >= 2 ^ 16

\* C28: when the snapshot and the target hold different sets of (unique) ids,
\* the plan's swaps, applied in order to the current reading order, leave the
\* pane targetOrder[i] at every index i within both orders whose target pane
\* is in the snapshot; and during the planning a position placed earlier is
\* not displaced by a later swap.
C28_PlacedPanesStay ==
    (JustPlanned /\ IdsOf(panes) # IdsOf(layout)) =>
        \A current \in {ReadingOrder(panes)}, target \in {ReadingOrder(layout)} :
        \A final \in {ApplySwaps(current, SwapsOf(plan))},
           loop \in {LoopStates(current, target)} :
            LET Placed == {i \in 1..Len(target) :
                              i <= Len(current) /\ target[i] \in IdsOf(panes)}
            IN /\ \A i \in Placed : final[i] = target[i]
               /\ \A i \in Placed :
                     \A k \in (i + 1)..(Len(target) + 1) :
                         loop[k].working_order[i] = target[i]

\* A swap took a pane out of an earlier position, one whose own target pane
\* is not in the snapshot, and placed it.
C28_Witness ==
    /\ JustPlanned
    /\ IdsOf(panes) # IdsOf(layout)
    /\ SwapsOf(plan) # <<>>
    /\ \E i \in LoopPositions, j \in LoopPositions :
          /\ j < i
          /\ ReadingOrder(layout)[j] \notin IdsOf(panes)
          /\ LoopBefore(i).working_order[j] = ReadingOrder(layout)[i]
          /\ LoopBefore(i + 1).working_order[i] = ReadingOrder(layout)[i]

\* The adapter operations that change the arrangement of the panes.
MutatingOps == {"swap_panes", "resize_pane", "move_pane", "break_pane", "join_pane"}

\* The adapter operations that only read.
ReadOps == {"is_available", "get_panes", "get_all_panes", "get_window_size"}

\* A call of reflow or cmd_reflow, or of SessionOptimizer, is under way or over.
InReflow == pc \in {"rf_start", "rf_enumerate", "rf_analyze", "rf_layout", "rf_apply", "rf_done"}
InSession == pc \in {"ss_start", "ss_apply", "ss_done"}

\* C29: with dry_run set, reflow, cmd_reflow, optimize, consolidate_related
\* and park_inactive make no mutating call on the adapter (swap, resize, move,
\* break, join): the adapter's panes stay as they were before the call, and
\* the calls on the adapter are reads only (availability, pane enumeration,
\* window size); the other calls reflow makes are on the analyzer, the
\* calculator and the planner.
C29_DryRunMutatesNothing ==
    /\ (InReflow /\ rfCfg.dry_run) =>
          /\ panes = RfPanes(Len(panes))
          /\ \A k \in 1..Len(rfLog) :
                rfLog[k] \in ReadOps \cup {"analyze_panes", "calculate", "plan_layout"}
    /\ (InSession /\ ssCfg.dry_run) =>
          /\ ssPanes = ssCfg.panes
          /\ \A k \in 1..Len(ssLog) : ssLog[k].op \in ReadOps

\* optimize returned from a dry run that proposed a move.
C29_Witness ==
    /\ pc = "ss_done"
    /\ ssCfg.dry_run
    /\ ssCfg.entry = "optimize"
    /\ "moves" \in DOMAIN ssResult
    /\ ssResult.moves # <<>>
    /\ ssResult.status = "calculated"
    /\ Len(ssLog) = 3
    /\ ssPanes = ssCfg.panes

\* The ids of every suggested group, one after the other.
RECURSIVE GroupedIds(_)
GroupedIds(groups) ==
    IF groups = <<>> THEN <<>>
    ELSE Head(groups).pane_ids \o GroupedIds(Tail(groups))

\* A pane that is related to no other pane of the session.
Unrelated(id) ==
    \A k \in 1..Len(ssCfg.panes) :
        ssCfg.panes[k].id # id =>
            /\ ~Related(ssCfg.relevance_matrix, id, ssCfg.panes[k].id)
            /\ ~Related(ssCfg.relevance_matrix, ssCfg.panes[k].id, id)

\* C30: the groups _suggest_groups returns partition the panes of the session:
\* every pane id is in exactly one group, and a pane related to no other pane
\* is in the group "misc".
C30_GroupsPartitionPanes ==
    (InSession /\ "suggested_groups" \in DOMAIN ssResult /\ ssCfg.entry = "optimize") =>
        LET groups == ssResult.suggested_groups
            ids == GroupedIds(groups)
        IN \A k \in 1..Len(ssCfg.panes) :
              LET id == ssCfg.panes[k].id IN
              /\ Cardinality({i \in 1..Len(ids) : ids[i] = id}) = 1
              /\ Unrelated(id) =>
                    \E g \in 1..Len(groups) :
                        groups[g].name = "misc" /\ id \in SetOf(groups[g].pane_ids)
====
